---- MODULE Spec2Model ----
(***************************************************************************)
(* Model of the source side of the SAP HANA connector: the combined        *)
(* iterator (snapshot child, CDC child, handoff), the tracking table       *)
(* filled by triggers, the background task that clears acknowledged        *)
(* tracking rows, and the host that reads, acknowledges, stops and         *)
(* restarts the connector.                                                 *)
(***************************************************************************)
EXTENDS Integers, Sequences, FiniteSets, TLC

\* ---------------------------------------------------------------- bounds
MaxVal == 3        \* ordering-column values are 1..MaxVal
MaxMut == 2        \* row mutations of the writers
MaxMutSnapshot == 1 \* row mutations of the writer, snapshot runs
MaxMutResume == 3  \* row mutations of the writers, runs with a crash
MaxCdcVal == 2     \* rows the writers of the CDC runs touch are 1..MaxCdcVal
MaxBatch == 2      \* batchSize is 1..MaxBatch
MaxFail == 1       \* database calls of the connector that fail
MaxInc == 2        \* connector incarnations (process starts)
MaxMutRecords == 3 \* row mutations of the writer, runs about the records
MaxRecordVal == 1  \* ordering values of the rows, runs about the records
MaxPosVal == 2     \* values carried by a position, runs about the positions
MaxMutReclaim == 3 \* mutations of the table, runs about the task's progress
MaxMutBatch == 3    \* row mutations of the writer, batch size runs
MaxDstVal == 2     \* column values of the destination table
MaxDstBatch == 2   \* records of one Destination.Write call
MaxDstRecords == 3 \* records written to the destination in a run

\* ------------------------------------------------------------- constants
\* Go values held in a field of type `any`, with their dynamic type
GoValue(type, val) == [type |-> type, val |-> val]
NULL == GoValue("nil", 0)       \* SQL NULL / Go nil in an `any` value
Int64(n) == GoValue("int64", n)
Float64(n) == GoValue("float64", n)
GoString(n) == GoValue("string", n)
Nil == [nil |-> TRUE]           \* Go nil pointer
TypeSnapshot == "s"
TypeCDC == "c"
insertOperation == "INSERT"
updateOperation == "UPDATE"
deleteOperation == "DELETE"
chanCap == 1                    \* capacity of stopCh, errCh, canCloseCh

Vals == 1..MaxVal
CdcVals == 1..MaxCdcVal
Writers == {"w1", "w2"}
Suffixes == {"t1", "t2"}        \* values time.Now().Format("150405") can take
Ops == {insertOperation, updateOperation, deleteOperation}

\* ---------------------------------------------------------------- helpers
Min(S) == CHOOSE x \in S : \A y \in S : x <= y
Max(S) == CHOOSE x \in S : \A y \in S : y <= x

RECURSIVE SortedSeq(_)
\* ORDER BY over a set of integers
SortedSeq(S) == IF S = {} THEN <<>> ELSE <<Min(S)>> \o SortedSeq(S \ {Min(S)})

\* LIMIT n
Limit(s, n) == IF Len(s) <= n THEN s ELSE SubSeq(s, 1, n)

Range(s) == {s[k] : k \in 1..Len(s)}

\* SQL comparison with a bound that may be NULL: unknown is not true
SqlLE(v, bound) == bound # NULL /\ v <= bound.val
SqlGT(v, bound) == bound # NULL /\ v > bound.val

\* ----------------------------------------------------------------- state
VARIABLES
  table,         \* committed rows of the source table, by ordering value
  tracking,      \* committed rows of each tracking table
  created,       \* suffixes whose tracking table and triggers exist
  nextId,        \* identity counter of CONDUIT_TRACKING_ID per tracking table
  tx,            \* open writer transactions
  nmut,          \* mutations executed so far
  commits,       \* history: committed mutations, in commit order
  cfg,           \* connector configuration: batchSize, snapshot, primaryKeys;
                 \* tableKeys: the primary key of the table descriptor
  pc,            \* position of the foreground (host calling the connector)
  inc,           \* number of the running incarnation
  trackingTable, \* CombinedIterator.trackingTable (its suffix)
  keys,          \* CombinedIterator.keys
  snapshot,      \* CombinedIterator.snapshot
  cdc,           \* CombinedIterator.cdc
  tableSrv,      \* cdcIterator.tableSrv
  mutex,         \* holder of tableSrv.m
  taskPc,        \* position of the clearTrackingTable goroutine
  taskKind,      \* select branch the goroutine is serving
  dbClosed,      \* db.Close() was called
  lastAcked,     \* position the host persisted (sdk.Position)
  unacked,       \* positions of emitted records not yet acknowledged
  emitted,       \* history: records returned by Next in this incarnation
  emittedAll,    \* history: records returned by Next in any incarnation
  ackedOk,       \* history: tracking ids passed to an Ack that returned nil
  wire,          \* a position, its serialized form and what parsing it gave
  dst,           \* the destination: its table and the last Write call
  pure,          \* a function of the connector, its argument and its result
  ret,           \* history: result of the last connector call
  run,           \* history: facts about this and the previous incarnation
  nfail          \* failed database calls so far

dbVars == <<table, tracking, created, nextId, tx, nmut, commits>>
itVars == <<trackingTable, keys, snapshot, cdc>>
srvVars == <<tableSrv, mutex, taskPc, taskKind>>
hostVars == <<lastAcked, unacked, emitted, emittedAll, ackedOk, wire, dst, pure>>
vars == <<table, tracking, created, nextId, tx, nmut, commits, cfg, pc, inc,
          trackingTable, keys, snapshot, cdc, tableSrv, mutex, taskPc,
          taskKind,
          dbClosed, lastAcked, unacked, emitted, emittedAll, ackedOk, wire,
          dst, pure, ret, run, nfail>>

\* ------------------------------------------------------------- positions
\* position.Position.  The last field is the one getSuffixName reads as
\* SuffixName; Next fills it from the tracking table the iterator holds.
Position(type, last, max, id, suffix) ==
  [IteratorType |-> type, SnapshotLastProcessedVal |-> last,
   SnapshotMaxValue |-> max, CDCLastID |-> id, SuffixName |-> suffix]

NilSdkPosition == <<>>

\* json.Marshal of a value of type `any`: the JSON token
Marshal(x) ==
  IF x.type = "nil" THEN [json |-> "null", val |-> 0]
  ELSE IF x.type \in {"int64", "float64"} THEN [json |-> "number", val |-> x.val]
  ELSE [json |-> "string", val |-> x.val]

\* json.Unmarshal into a field of type `any`: every number becomes a float64
Unmarshal(tok) ==
  IF tok.json = "null" THEN NULL
  ELSE IF tok.json = "number" THEN Float64(tok.val)
  ELSE GoString(tok.val)

\* Position.ConvertToSDKPosition: the JSON object, field by field
ConvertToSDKPosition(p) ==
  <<p.IteratorType, Marshal(p.SnapshotLastProcessedVal),
    Marshal(p.SnapshotMaxValue), p.CDCLastID, p.SuffixName>>

ErrUnknownIteratorType == [err |-> "unknown iterator type"]

\* position.ParseSDKPosition
ParseSDKPosition(sp) ==
  IF sp = NilSdkPosition THEN Nil
  ELSE IF sp[1] \notin {TypeSnapshot, TypeCDC} THEN ErrUnknownIteratorType
  ELSE Position(sp[1], Unmarshal(sp[2]), Unmarshal(sp[3]), sp[4], sp[5])

\* the positions handed to the two functions
PosVals == {NULL} \cup {Int64(n) : n \in 1..MaxPosVal}
                  \cup {Float64(n) : n \in 1..MaxPosVal}
                  \cup {GoString(n) : n \in 1..MaxPosVal}
Positions ==
  {Position(t, l, m, id, "t1") :
     t \in {TypeSnapshot, TypeCDC, "i"}, l \in PosVals, m \in PosVals,
     id \in 0..MaxPosVal}

NoWire == [p |-> Nil, sdk |-> NilSdkPosition, parsed |-> Nil, step |-> "none"]

\* p.ConvertToSDKPosition()
ConvertPosition ==
  /\ wire.step = "input"
  /\ wire.p # Nil
  /\ wire' = [wire EXCEPT !.sdk = ConvertToSDKPosition(wire.p), !.step = "converted"]
  /\ UNCHANGED <<dbVars, cfg, pc, inc, itVars, srvVars, dbClosed, lastAcked, unacked,
                 emitted, emittedAll, ackedOk, dst, pure, ret, run, nfail>>

\* ParseSDKPosition of the serialized position, or of a nil sdk.Position
ParsePosition ==
  /\ \/ wire.step = "converted"
     \/ wire.step = "input" /\ wire.p = Nil
  /\ wire' = [wire EXCEPT !.parsed = ParseSDKPosition(wire.sdk), !.step = "parsed"]
  /\ UNCHANGED <<dbVars, cfg, pc, inc, itVars, srvVars, dbClosed, lastAcked, unacked,
                 emitted, emittedAll, ackedOk, dst, pure, ret, run, nfail>>

\* -------------------------------------------------------------- database
NoTx == [op |-> "none"]

\* rows another open transaction has locked
Locked(w) == {tx[v].oc : v \in {u \in Writers \ {w} : tx[u] # NoTx}}

\* A writer executes one INSERT, UPDATE or DELETE inside a transaction.  The
\* row-level triggers of every existing tracking table insert a tracking row
\* in the same transaction; the identity value is taken when the row is
\* inserted.
WriterExec(w, op, v, max) ==
  /\ tx[w] = NoTx
  /\ nmut < max
  /\ v \notin Locked(w)
  /\ IF op = insertOperation THEN v \notin table ELSE v \in table
  /\ nmut' = nmut + 1
  /\ tx' = [tx EXCEPT ![w] = [op |-> op, oc |-> v, mid |-> nmut + 1,
                              ids |-> [s \in created |-> nextId[s]]]]
  /\ nextId' = [s \in Suffixes |-> IF s \in created THEN nextId[s] + 1 ELSE nextId[s]]
  /\ UNCHANGED <<table, tracking, created, commits, cfg, pc, inc, itVars, srvVars,
                 dbClosed, hostVars, ret, run, nfail>>

TrackingRow(t, s) == [id |-> t.ids[s], op |-> t.op, oc |-> t.oc, mid |-> t.mid]

\* where the foreground is: no connector running, inside Open, or opened
Phase == IF pc = "closed" THEN "closed"
         ELSE IF pc \in {"setup", "snapLoaded"} THEN "open"
         ELSE "run"

\* The transaction commits: the change of the source table and the tracking
\* rows written by the triggers become visible together.
WriterCommit(w) ==
  /\ tx[w] # NoTx
  /\ table' = IF tx[w].op = insertOperation THEN table \cup {tx[w].oc}
              ELSE IF tx[w].op = deleteOperation THEN table \ {tx[w].oc}
              ELSE table
  /\ tracking' = [s \in Suffixes |->
                    IF s \in DOMAIN tx[w].ids
                    THEN tracking[s] \cup {TrackingRow(tx[w], s)}
                    ELSE tracking[s]]
  /\ commits' = Append(commits, [op |-> tx[w].op, oc |-> tx[w].oc, mid |-> tx[w].mid,
                                 inc |-> inc, at |-> Phase, n |-> Len(emitted),
                                 captured |-> DOMAIN tx[w].ids])
  /\ tx' = [tx EXCEPT ![w] = NoTx]
  /\ UNCHANGED <<created, nextId, nmut, cfg, pc, inc, itVars, srvVars,
                 dbClosed, hostVars, ret, run, nfail>>

\* Another database client inserts into a tracking table a row whose
\* operation type is none of the three the triggers write.
ForeignRow(s) ==
  /\ s \in created
  /\ \A u \in Suffixes : \A r \in tracking[u] : r.op \in Ops
  /\ tracking' = [tracking EXCEPT ![s] =
                   @ \cup {[id |-> nextId[s], op |-> "TRUNCATE", oc |-> 1, mid |-> 0]}]
  /\ nextId' = [nextId EXCEPT ![s] = @ + 1]
  /\ UNCHANGED <<table, created, tx, nmut, commits, cfg, pc, inc, itVars, srvVars,
                 dbClosed, hostVars, ret, run, nfail>>

\* ------------------------------------------------------------- page loads
\* loadRows with "<" in place of "<=" for the upper bound
SnapshotPage_UpperExclusive(tbl, position, batch) ==
  IF position = Nil THEN Limit(SortedSeq(tbl), batch)
  ELSE Limit(SortedSeq({v \in tbl : /\ SqlGT(v, position.SnapshotLastProcessedVal)
                                     /\ SqlLE(v, position.SnapshotMaxValue)
                                     /\ v # position.SnapshotMaxValue.val}), batch)

\* snapshotIterator.loadRows: the rows of one page
SnapshotPage(tbl, position, batch) ==
  IF position = Nil THEN Limit(SortedSeq(tbl), batch)
  ELSE Limit(SortedSeq({v \in tbl : /\ SqlGT(v, position.SnapshotLastProcessedVal)
                                     /\ SqlLE(v, position.SnapshotMaxValue)}), batch)

\* snapshotIterator.setMaxValue: SELECT MAX(orderingColumn)
MaxValue(tbl) == IF tbl = {} THEN NULL ELSE Int64(Max(tbl))

RowById(rows, id) == CHOOSE r \in rows : r.id = id

\* loadRows with ">=" in place of ">" for the last processed id
CdcPage_FromLastId(rows, position, batch) ==
  LET sel == IF position = Nil THEN rows
             ELSE {r \in rows : r.id >= position.CDCLastID}
      ids == Limit(SortedSeq({r.id : r \in sel}), batch)
  IN [k \in 1..Len(ids) |-> RowById(sel, ids[k])]

\* loadRows ordered by descending id
CdcPage_Descending(rows, position, batch) ==
  LET sel == IF position = Nil THEN rows
             ELSE {r \in rows : r.id > position.CDCLastID}
      ids == Limit(SortedSeq({0 - r.id : r \in sel}), batch)
  IN [k \in 1..Len(ids) |-> RowById(sel, 0 - ids[k])]

\* cdcIterator.loadRows: the rows of one page
CdcPage(rows, position, batch) ==
  LET sel == IF position = Nil THEN rows
             ELSE {r \in rows : r.id > position.CDCLastID}
      ids == Limit(SortedSeq({r.id : r \in sel}), batch)
  IN [k \in 1..Len(ids) |-> RowById(sel, ids[k])]

\* ----------------------------------------------------------------- rows
\* The source table has the ordering column ID and a second column PK; the
\* row with ordering value v holds v in both.
orderingColumn == "ID"
Columns == {"ID", "PK"}
columnOperationType == "CONDUIT_OPERATION_TYPE"
columnTrackingID == "CONDUIT_TRACKING_ID"

\* values of the primaryKeys option, and primary keys of the table descriptor
CfgKeys == {<<>>, <<"pk">>, <<"ID">>}
TableKeys == {<<>>, <<"ID">>, <<"PK">>}

\* strings.ToUpper on the column names used here
ToUpper(name) == IF name = "pk" THEN "PK" ELSE IF name = "id" THEN "ID" ELSE name

\* the row of the source table as MapScan returns it
SourceRow(v) == [c \in Columns |-> v]

\* the column names of a row of the tracking table
TrackingColumns == Columns \cup {columnOperationType, columnTrackingID}

\* keysMap of Next: the key columns of the row
keysMap(ks, row) == [c \in Range(ks) |-> row[c]]

\* the row of the tracking table as MapScan returns it
TrackingColumnsOf(r) ==
  [c \in TrackingColumns |-> IF c = columnOperationType THEN r.op
                             ELSE IF c = columnTrackingID THEN r.id
                             ELSE r.oc]

\* the payload with the two tracking columns left in
cdcPayload_KeepsTrackingColumns(row) == row

\* the payload of a CDC record: the row after delete(transformedRow, ...) of
\* the two tracking columns
cdcPayload(row) ==
  [c \in DOMAIN row \ {columnOperationType, columnTrackingID} |-> row[c]]

NoPayload == <<>>

\* the keys field of the CombinedIterator literal in NewCombinedIterator
NoKeys == <<>>

\* CombinedIterator.setKeys; current is c.keys before the call
setKeys(cfgKeys, current, ordering) ==
  IF Len(cfgKeys) > 0 THEN [k \in 1..Len(cfgKeys) |-> ToUpper(cfgKeys[k])]
  ELSE IF Len(current) > 0 THEN current
  ELSE <<ordering>>

\* ------------------------------------------------------------------ init
\* ------------------------------------------------------------ destination
DstCols == {"ID", "K2", "V"}
DstVals == 1..MaxDstVal
DstRows == [DstCols -> DstVals]
PrimaryKeys == {{"ID"}, {"ID", "K2"}}   \* primary key of the destination table
DstNull == 0

\* sdk.Data: nil, raw data of zero bytes, or structured data (a map)
NoData == [kind |-> "nil", m |-> <<>>]
EmptyBytes == [kind |-> "raw", m |-> <<>>]
StructuredData(m) == [kind |-> "structured", m |-> m]
EmptyMap == [c \in {} |-> DstNull]

KeyOf(row, pk) == [c \in pk |-> row[c]]

\* Writer.structurizeData: nil for nil data and for data of zero bytes,
\* otherwise the map the bytes unmarshal to
structurizeData(data) ==
  IF data.kind = "nil" \/ data.kind = "raw" THEN [nil |-> TRUE, m |-> EmptyMap]
  ELSE [nil |-> FALSE, m |-> data.m]

\* columntypes.ConvertStructureData for integer columns: nil stays nil and
\* every other value is kept
ConvertStructureData(m) == [c \in DOMAIN m |-> IF m[c] = DstNull THEN DstNull ELSE m[c]]

\* WHERE k1 = v1 AND k2 = v2 ...; a comparison with NULL is not true
Matches(row, ks) == \A c \in DOMAIN ks : ks[c] # DstNull /\ row[c] = ks[c]

Done(tbl, err, sql) == [tbl |-> tbl, err |-> err, sql |-> sql]

\* the table accepts a set of rows: key columns not NULL, keys unique
Accepts(rows, pk) ==
  /\ \A r \in rows : \A c \in pk : r[c] # DstNull
  /\ \A r1, r2 \in rows : KeyOf(r1, pk) = KeyOf(r2, pk) => r1 = r2

\* buildInsertQuery and its execution: INSERT INTO t (cols) VALUES (...)
ExecInsert(tbl, pk, payload) ==
  LET row == [c \in DstCols |-> IF c \in DOMAIN payload THEN payload[c] ELSE DstNull]
  IN IF DOMAIN payload = {} \/ row \in tbl \/ ~Accepts(tbl \cup {row}, pk)
     THEN Done(tbl, "exec insert", TRUE)
     ELSE Done(tbl \cup {row}, "", TRUE)

\* buildUpdateQuery and its execution: UPDATE t SET col = v, ... WHERE keys
ExecUpdate(tbl, pk, ks, payload) ==
  LET new == {IF Matches(r, ks)
              THEN [c \in DstCols |-> IF c \in DOMAIN payload THEN payload[c] ELSE r[c]]
              ELSE r : r \in tbl}
  IN IF DOMAIN payload = {} \/ ~Accepts(new, pk) \/ Cardinality(new) # Cardinality(tbl)
     THEN Done(tbl, "exec update", TRUE)
     ELSE Done(new, "", TRUE)

\* buildDeleteQuery and its execution: DELETE FROM t WHERE keys
ExecDelete(tbl, ks) == Done({r \in tbl : ~Matches(r, ks)}, "", TRUE)

\* Writer.Insert
Insert(tbl, pk, record) ==
  LET payload == structurizeData(record.Payload)
  IN IF payload.nil THEN Done(tbl, "ErrNoPayload", FALSE)
     ELSE ExecInsert(tbl, pk, ConvertStructureData(payload.m))

\* Writer.Update setting the columns without a WHERE clause
Update_AllRows(tbl, pk, record) ==
  LET payload == structurizeData(record.Payload)
      ks == structurizeData(record.Key)
  IN IF payload.nil THEN Done(tbl, "ErrNoPayload", FALSE)
     ELSE IF DOMAIN ks.m = {} THEN Done(tbl, "ErrNoKey", FALSE)
     ELSE ExecUpdate(tbl, pk, EmptyMap, ConvertStructureData(payload.m))

\* Writer.Update
Update(tbl, pk, record) ==
  LET payload == structurizeData(record.Payload)
      ks == structurizeData(record.Key)
  IN IF payload.nil THEN Done(tbl, "ErrNoPayload", FALSE)
     ELSE IF DOMAIN ks.m = {} THEN Done(tbl, "ErrNoKey", FALSE)
     ELSE ExecUpdate(tbl, pk, ks.m, ConvertStructureData(payload.m))

\* Writer.Delete
Delete(tbl, pk, record) ==
  LET ks == structurizeData(record.Key)
  IN IF DOMAIN ks.m = {} THEN Done(tbl, "ErrNoKey", FALSE)
     ELSE ExecDelete(tbl, ks.m)

\* the routing with snapshot records sent to Update
Route_SnapshotToUpdate(record) ==
  IF record.Operation = "create" THEN "Insert"
  ELSE IF record.Operation = "update" THEN "Update"
  ELSE IF record.Operation = "delete" THEN "Delete"
  ELSE "Update"

\* sdk.Util.Destination.Route with the handlers Destination.Write passes:
\* create -> Insert, update -> Update, delete -> Delete, snapshot -> Insert
Route(record) ==
  IF record.Operation = "create" THEN "Insert"
  ELSE IF record.Operation = "update" THEN "Update"
  ELSE IF record.Operation = "delete" THEN "Delete"
  ELSE "Insert"

Call(method, tbl, pk, record) ==
  IF method = "Insert" THEN Insert(tbl, pk, record)
  ELSE IF method = "Update" THEN Update(tbl, pk, record)
  ELSE Delete(tbl, pk, record)

RECURSIVE WriteLoop_GoesOn(_, _, _, _)
\* the loop going on with the next record after an error
WriteLoop_GoesOn(tbl, pk, records, i) ==
  IF i > Len(records) THEN <<>>
  ELSE LET method == Route(records[i])
           out == Call(method, tbl, pk, records[i])
           step == [method |-> method, record |-> records[i], before |-> tbl,
                    after |-> out.tbl, err |-> out.err, sql |-> out.sql]
       IN <<step>> \o WriteLoop_GoesOn(out.tbl, pk, records, i + 1)

RECURSIVE WriteLoop(_, _, _, _)
\* the loop of Destination.Write from record i on: one entry per record it
\* reaches; it returns at the first error
WriteLoop(tbl, pk, records, i) ==
  IF i > Len(records) THEN <<>>
  ELSE LET method == Route(records[i])
           out == Call(method, tbl, pk, records[i])
           step == [method |-> method, record |-> records[i], before |-> tbl,
                    after |-> out.tbl, err |-> out.err, sql |-> out.sql]
       IN IF out.err # "" THEN <<step>>
          ELSE <<step>> \o WriteLoop(out.tbl, pk, records, i + 1)

Record(op, key, payload) == [Operation |-> op, Key |-> key, Payload |-> payload]

\* the records handed to Destination.Write
DstRecords(pk) ==
  {Record(op, StructuredData(KeyOf(r, pk)), StructuredData(r)) :
     op \in {"create", "snapshot", "update"}, r \in DstRows}
  \cup {Record(op, key, StructuredData([c \in DstCols |-> 1])) :
          op \in {"create", "snapshot", "update"},
          key \in {NoData, StructuredData(EmptyMap)}}
  \cup {Record(op, StructuredData(KeyOf([c \in DstCols |-> 1], pk)), payload) :
          op \in {"create", "snapshot", "update"},
          payload \in {NoData, EmptyBytes, StructuredData(EmptyMap)}}
  \cup {Record("delete", key, NoData) :
          key \in {StructuredData(KeyOf(r, pk)) : r \in DstRows}
                  \cup {NoData, StructuredData(EmptyMap)}}

NoDst == [pk |-> {}, tbl |-> {}, records |-> <<>>, trace |-> <<>>, n |-> 0,
          err |-> "", total |-> 0]

\* Destination.Write
DestinationWrite(records) ==
  /\ dst.pk # {}
  /\ Len(records) \in 1..MaxDstBatch
  /\ dst.total + Len(records) <= MaxDstRecords
  /\ LET trace == WriteLoop(dst.tbl, dst.pk, records, 1)
         last == trace[Len(trace)]
     IN dst' = [dst EXCEPT !.tbl = last.after, !.records = records, !.trace = trace,
                           !.n = IF last.err # "" THEN Len(trace) - 1 ELSE Len(records),
                           !.err = last.err,
                           !.total = @ + Len(records)]
  /\ UNCHANGED <<dbVars, cfg, pc, inc, itVars, srvVars, dbClosed, lastAcked, unacked,
                 emitted, emittedAll, ackedOk, wire, pure, ret, run, nfail>>

NoPure == [fn |-> "none", arg |-> <<>>, out |-> <<>>, step |-> "none"]

\* ----------------------------------------------------------------- config
DSNAuthType == "DSN"
BasicAuthType == "Basic"
JWTAuthType == "JWT"
X509AuthType == "X509"

AuthConfig(mechanism, m) ==
  [Mechanism |-> mechanism, Host |-> m.host, DSN |-> m.dsn, Username |-> m.username,
   Password |-> m.password, Token |-> m.token,
   ClientCertFilePath |-> m.clientCertFile, ClientKeyFilePath |-> m.clientKeyFile]

\* AuthConfig.validate
validate(a) ==
  IF a.Mechanism = DSNAuthType THEN
    IF a.DSN = "" THEN "errRequiredDSNParameter" ELSE ""
  ELSE IF a.Mechanism = BasicAuthType THEN
    IF a.Host = "" THEN "errRequiredHostParameter"
    ELSE IF a.Username = "" THEN "errRequiredUsernameParameter"
    ELSE IF a.Password = "" THEN "errRequiredPasswordParameter"
    ELSE ""
  ELSE IF a.Mechanism = JWTAuthType THEN
    IF a.Host = "" THEN "errRequiredHostParameter"
    ELSE IF a.Token = "" THEN "errRequiredTokenParameter"
    ELSE ""
  ELSE IF a.Mechanism = X509AuthType THEN
    IF a.Host = "" THEN "errRequiredHostParameter"
    ELSE IF a.ClientKeyFilePath = "" THEN "errRequiredClientKeyFileParameter"
    ELSE IF a.ClientCertFilePath = "" THEN "errRequiredClientCertFileParameter"
    ELSE ""
  ELSE "ErrInvalidAuthMechanism"

\* config.Parse taking the mechanism as configured, without the default
Parse_NoDefault(m) ==
  LET a == AuthConfig(m.mechanism, m)
  IN [err |-> validate(a), Auth |-> IF validate(a) = "" THEN a ELSE Nil]

\* config.Parse: the mechanism is DSN unless the map names one
Parse(m) ==
  LET a == AuthConfig(IF m.mechanism # "" THEN m.mechanism ELSE DSNAuthType, m)
  IN [err |-> validate(a), Auth |-> IF validate(a) = "" THEN a ELSE Nil]

AuthKeys == {"host", "dsn", "username", "password", "token", "clientCertFile",
             "clientKeyFile"}
Mechanisms == {"", "DSN", "Basic", "JWT", "X509", "dsn", "LDAP"}

\* the configuration maps handed to Parse: each parameter absent or present
ConfigMaps == [AuthKeys -> {"", "x"}]
ConfigInputs ==
  {[k \in AuthKeys \cup {"mechanism"} |-> IF k = "mechanism" THEN mech ELSE m[k]] :
     mech \in Mechanisms, m \in ConfigMaps}

Pure(fn, arg) == [fn |-> fn, arg |-> arg, out |-> <<>>, step |-> "input"]

\* a call of config.Parse
ConfigParse ==
  /\ pure.fn = "Parse" /\ pure.step = "input"
  /\ pure' = [pure EXCEPT !.out = Parse(pure.arg), !.step = "done"]
  /\ UNCHANGED <<dbVars, cfg, pc, inc, itVars, srvVars, dbClosed, lastAcked, unacked,
                 emitted, emittedAll, ackedOk, wire, dst, ret, run, nfail>>

\* --------------------------------------------------------------- decimals
MaxDigits == 3     \* digits of a number handed to convertToDecimal
MaxStrLen == 4     \* characters of a string handed to convertToDecimal
Digits == {"0", "1"}
Chars == Digits \cup {".", "/", "x"}

RECURSIVE GCD(_, _)
GCD(a, b) == IF b = 0 THEN a ELSE GCD(b, a % b)

RECURSIVE Pow10(_)
Pow10(n) == IF n = 0 THEN 1 ELSE 10 * Pow10(n - 1)

\* big.NewRat(a, b): the fraction in lowest terms; it panics when b = 0
NewRat(a, b) ==
  IF b = 0 THEN [err |-> "panic: division by zero", rat |-> Nil]
  ELSE [err |-> "", rat |-> <<a \div GCD(a, b), b \div GCD(a, b)>>]

Failed(err) == [err |-> err, rat |-> Nil]

Contains(str, c) == \E i \in 1..Len(str) : str[i] = c

RECURSIVE Split(_, _)
\* strings.Split(str, sep) for a separator of one character
Split(str, sep) ==
  IF ~Contains(str, sep) THEN <<str>>
  ELSE LET i == CHOOSE i \in 1..Len(str) :
                  str[i] = sep /\ \A j \in 1..(i - 1) : str[j] # sep
       IN <<SubSeq(str, 1, i - 1)>> \o Split(SubSeq(str, i + 1, Len(str)), sep)

RECURSIVE Join(_)
\* strings.Join(parts, "")
Join(parts) == IF parts = <<>> THEN <<>> ELSE Head(parts) \o Join(Tail(parts))

RECURSIVE DigitsValue(_)
DigitsValue(str) ==
  IF str = <<>> THEN 0
  ELSE 10 * DigitsValue(SubSeq(str, 1, Len(str) - 1))
       + (IF str[Len(str)] = "1" THEN 1 ELSE 0)

\* strconv.ParseInt(str, 10, 64)
ParseInt(str) ==
  IF str # <<>> /\ \A i \in 1..Len(str) : str[i] \in Digits
  THEN [ok |-> TRUE, n |-> DigitsValue(str)]
  ELSE [ok |-> FALSE, n |-> 0]

\* convertStrToDecimal
convertStrToDecimal(strVal) ==
  LET parts == Split(strVal, ".")
  IN IF Len(parts) = 1 THEN
       IF ParseInt(parts[1]).ok THEN NewRat(ParseInt(parts[1]).n, 1)
       ELSE Failed("parse to int64")
     ELSE IF Len(parts) = 2 THEN
       IF ParseInt(Join(parts)).ok
       THEN NewRat(ParseInt(Join(parts)).n, Pow10(Len(parts[2])))
       ELSE Failed("parse to int64")
     ELSE Failed("ErrInvalidDecimalStringPresentation")

\* fmt.Sprintf("%g", val) of the float digits * 10^exp: the shortest
\* representation, with an exponent from 10^21 on
FormatG(val) ==
  IF val.exp >= 21 THEN <<val.digits[1]>> \o <<"e">>
  ELSE IF val.exp = 0 THEN val.digits
  ELSE SubSeq(val.digits, 1, Len(val.digits) + val.exp) \o <<".">>
       \o SubSeq(val.digits, Len(val.digits) + val.exp + 1, Len(val.digits))

\* convertToDecimal
convertToDecimal(val) ==
  IF val.kind \in {"float64", "float32"} THEN convertStrToDecimal(FormatG(val))
  ELSE IF val.kind = "string" THEN
    IF Contains(val.str, ".") THEN convertStrToDecimal(val.str)
    ELSE IF Contains(val.str, "/") THEN
      LET parts == Split(val.str, "/")
      IN IF Len(parts) # 2 THEN Failed("ErrInvalidDecimalStringPresentation")
         ELSE IF ~ParseInt(parts[1]).ok \/ ~ParseInt(parts[2]).ok
         THEN Failed("parse to int64")
         ELSE NewRat(ParseInt(parts[1]).n, ParseInt(parts[2]).n)
    ELSE Failed("ErrCannotConvertValueToDecimal")
  ELSE IF val.kind \in {"int64", "int32"} THEN
    IF val.kind # "int64" THEN Failed("ErrCannotConvertToInt")
    ELSE NewRat(val.n, 1)
  ELSE Failed("ErrCannotConvertValueToDecimal")

Strings == UNION {[1..n -> Chars] : n \in 0..MaxStrLen}
Mantissas == {d \in UNION {[1..n -> Digits] : n \in 1..MaxDigits} :
                d[1] = "1" /\ (Len(d) > 1 => d[Len(d)] = "1")}

\* the values found in a payload under a DECIMAL or SMALLDECIMAL column
DecimalInputs ==
  {[kind |-> "string", str |-> str] : str \in Strings}
  \cup {v \in [kind : {"float64", "float32"}, digits : Mantissas,
                exp : {0 - 2, 0 - 1, 0, 21}] :
          /\ v.exp < 0 => Len(v.digits) > 0 - v.exp
          /\ v.exp = 21 => Len(v.digits) = 1}
  \cup {[kind |-> k, n |-> DigitsValue(d)] :
          k \in {"int64", "int32", "int", "uint8", "bool"},
          d \in UNION {[1..n -> Digits] : n \in 1..MaxDigits}}

\* a call of convertToDecimal
ConvertToDecimal ==
  /\ pure.fn = "convertToDecimal" /\ pure.step = "input"
  /\ pure' = [pure EXCEPT !.out = convertToDecimal(pure.arg), !.step = "done"]
  /\ UNCHANGED <<dbVars, cfg, pc, inc, itVars, srvVars, dbClosed, lastAcked, unacked,
                 emitted, emittedAll, ackedOk, wire, dst, ret, run, nfail>>

\* Source.Read answering with a record whenever no error occurred
SourceRead_NoBackoff(hasNext, err) ==
  IF err # "" THEN "error" ELSE "record"

\* Source.Read: what it returns, given what HasNext returned and the error
\* of HasNext or, after HasNext returned true, of Next
SourceRead(hasNext, err) ==
  IF ~hasNext /\ err # "" THEN "error"
  ELSE IF ~hasNext THEN "ErrBackoffRetry"
  ELSE IF err # "" THEN "error"
  ELSE "record"

NoRet == [call |-> "none", child |-> "none", hasNext |-> FALSE, err |-> "",
          switched |-> FALSE, via |-> "", read |-> "none"]
Ret(call, child, hasNext, err, switched) ==
  [call |-> call, child |-> child, hasNext |-> hasNext, err |-> err,
   switched |-> switched, via |-> "",
   read |-> IF call = "Read" THEN SourceRead(hasNext, err) ELSE "none"]

NoRun == [start |-> NilSdkPosition, openTable |-> {}, startId |-> 0,
          prevEmitted |-> <<>>, prevStart |-> NilSdkPosition,
          prevStopped |-> FALSE, prevAllAcked |-> FALSE]

InitConnector ==
  /\ table \in SUBSET Vals
  /\ tracking = [s \in Suffixes |-> {}]
  /\ created = {}
  /\ nextId = [s \in Suffixes |-> 1]
  /\ tx = [w \in Writers |-> NoTx]
  /\ nmut = 0
  /\ commits = <<>>
  /\ cfg \in [batchSize : 1..MaxBatch, snapshot : BOOLEAN,
             primaryKeys : CfgKeys, tableKeys : TableKeys]
  /\ pc = "closed"
  /\ inc = 0
  /\ trackingTable = ""
  /\ keys = <<>>
  /\ snapshot = Nil
  /\ cdc = Nil
  /\ tableSrv = Nil
  /\ mutex = "free"
  /\ taskPc = "none"
  /\ taskKind = "none"
  /\ dbClosed = FALSE
  /\ lastAcked = NilSdkPosition
  /\ unacked = <<>>
  /\ emitted = <<>>
  /\ emittedAll = {}
  /\ ackedOk = {}
  /\ ret = NoRet
  /\ run = NoRun
  /\ nfail = 0

Init == InitConnector /\ wire = NoWire /\ dst = NoDst /\ pure = NoPure

\* ------------------------------------------------------- combined iterator
\* getSuffixName: the values it can return
getSuffixName(pos) == IF pos # Nil THEN {pos.SuffixName} ELSE Suffixes

\* the snapshot child chosen whatever the position says
StartsWithSnapshot_IgnoresPosition(pos) == cfg.snapshot

\* NewCombinedIterator starts with the snapshot child
StartsWithSnapshot(pos) ==
  cfg.snapshot /\ (IF pos = Nil THEN TRUE ELSE pos.IteratorType = TypeSnapshot)

\* newTrackingTableService
NoChan == [len |-> 0, closed |-> FALSE]
newTrackingTableService ==
  [idsForRemoving |-> <<>>, stopCh |-> NoChan, errCh |-> NoChan, canCloseCh |-> NoChan]

\* newCDCIterator, when its loadRows succeeds
newCDCIterator(pos) ==
  [rows |-> CdcPage(tracking[trackingTable], pos, cfg.batchSize),
   cur |-> Nil, position |-> pos]

\* setTriggers: the three triggers of the suffix exist afterwards, whether
\* or not they existed before
setTriggers(made, suffix) == made \cup {suffix}

\* setupCDC dropping and creating the tracking table when it exists
setupCDC_Recreate(suffix) ==
  [created |-> setTriggers(created, suffix),
   tracking |-> [tracking EXCEPT ![suffix] = {}],
   nextId |-> [nextId EXCEPT ![suffix] = 1]]

\* setupCDC: one transaction that probes for the tracking table, creates it
\* (empty, identity column at its start) when the probe finds none, and sets
\* the triggers
setupCDC(suffix) ==
  LET trackingTableExist == suffix \in created
  IN [created |-> setTriggers(created, suffix),
      tracking |-> IF trackingTableExist THEN tracking
                   ELSE [tracking EXCEPT ![suffix] = {}],
      nextId |-> IF trackingTableExist THEN nextId
                 ELSE [nextId EXCEPT ![suffix] = 1]]

\* NewCombinedIterator up to and including setupCDC: the position is parsed,
\* the suffix chosen, and the tracking table and triggers are created in one
\* transaction unless the tracking table exists.
OpenSetup(suffix) ==
  /\ pc = "closed"
  /\ inc < MaxInc
  /\ suffix \in getSuffixName(ParseSDKPosition(lastAcked))
  /\ created' = setupCDC(suffix).created
  /\ tracking' = setupCDC(suffix).tracking
  /\ nextId' = setupCDC(suffix).nextId
  /\ trackingTable' = suffix
  /\ keys' = setKeys(cfg.primaryKeys, NoKeys, orderingColumn)
  /\ inc' = inc + 1
  /\ pc' = "setup"
  /\ dbClosed' = FALSE
  /\ run' = [run EXCEPT !.start = lastAcked, !.startId = 0]
  /\ ret' = Ret("Open", "none", FALSE, "", FALSE)
  /\ UNCHANGED <<table, tx, nmut, commits, cfg, snapshot, cdc,
                 srvVars, hostVars, nfail>>

\* the steps of setupCDC that can fail, in the order they run
SetupSteps == <<"create transaction", "execute query exist table",
                "create tracking table", "setup triggers", "commit transaction">>

\* what the transaction of setupCDC has written when it stops at a failing
\* step: nothing up to the probe, the tracking table (when the probe found
\* none) once its creation succeeded
Written(suffix, failAt) ==
  IF failAt \in {"setup triggers", "commit transaction"}
  THEN setupCDC(suffix)
  ELSE [created |-> created, tracking |-> tracking, nextId |-> nextId]

\* an error return that leaves what the transaction has written
Rollback_Keep(before, written) == written

\* defer tx.Rollback(): on an error return nothing the transaction wrote stays
Rollback(before, written) == before

\* NewCombinedIterator when setupCDC fails at a step: the deferred Rollback
\* runs and the error is returned; no iterator is built
OpenSetupFails(suffix, failAt) ==
  /\ pc = "closed"
  /\ inc < MaxInc
  /\ nfail < MaxFail
  /\ suffix \in getSuffixName(ParseSDKPosition(lastAcked))
  /\ failAt \in Range(SetupSteps)
  /\ failAt = "create tracking table" => suffix \notin created
  /\ LET db == Rollback([created |-> created, tracking |-> tracking, nextId |-> nextId],
                        Written(suffix, failAt))
     IN /\ created' = db.created
        /\ tracking' = db.tracking
        /\ nextId' = db.nextId
  /\ inc' = inc + 1
  /\ nfail' = nfail + 1
  /\ ret' = Ret("Open", "none", FALSE, failAt, FALSE)
  /\ UNCHANGED <<table, tx, nmut, commits, cfg, pc, itVars, srvVars, dbClosed,
                 hostVars, run>>

\* the maximum read again from the table instead of taken from the position
AdoptedMax_Recomputed(pos, tbl) == MaxValue(tbl)

\* newSnapshotIterator with a position: the maximum is the one the position
\* carries
AdoptedMax(pos, tbl) == pos.SnapshotMaxValue

\* newSnapshotIterator: loadRows, and the adoption of the maximum carried by
\* the position
OpenSnapshotLoad ==
  /\ pc = "setup"
  /\ LET pos == ParseSDKPosition(lastAcked) IN
     /\ StartsWithSnapshot(pos)
     /\ snapshot' = [rows |-> SnapshotPage(table, pos, cfg.batchSize),
                     cur |-> NULL, position |-> pos,
                     maxValue |-> IF pos # Nil THEN AdoptedMax(pos, table) ELSE NULL]
     /\ pc' = IF pos # Nil THEN "running" ELSE "snapLoaded"
     /\ run' = IF pos = Nil THEN [run EXCEPT !.openTable = table] ELSE run
  /\ UNCHANGED <<dbVars, cfg, inc, trackingTable, keys, cdc, srvVars, dbClosed,
                 hostVars, ret, nfail>>

\* newSnapshotIterator: setMaxValue, when the position is nil
OpenSnapshotMax ==
  /\ pc = "snapLoaded"
  /\ snapshot' = [snapshot EXCEPT !.maxValue = MaxValue(table)]
  /\ pc' = "running"
  /\ UNCHANGED <<dbVars, cfg, inc, trackingTable, keys, cdc, srvVars, dbClosed,
                 hostVars, ret, run, nfail>>

\* NewCombinedIterator with the CDC child: newCDCIterator loads the first
\* page and starts the clearTrackingTable goroutine
OpenCDC ==
  /\ pc = "setup"
  /\ LET pos == ParseSDKPosition(lastAcked) IN
     /\ ~StartsWithSnapshot(pos)
     /\ cdc' = newCDCIterator(pos)
     /\ run' = [run EXCEPT !.startId = IF pos = Nil THEN 0 ELSE pos.CDCLastID]
  /\ tableSrv' = newTrackingTableService
  /\ taskPc' = "wait"
  /\ pc' = "running"
  /\ UNCHANGED <<dbVars, cfg, inc, trackingTable, keys, snapshot, mutex, taskKind,
                 dbClosed, hostVars, ret, nfail>>

\* switchToCDCIterator keeping the snapshot child
switchToCDCIterator_KeepSnapshot(loaded) ==
  [snapshot |-> snapshot, cdc |-> IF loaded THEN newCDCIterator(Nil) ELSE Nil]

\* switchToCDCIterator once the cursor is closed: the children after it;
\* loaded is whether loadRows of the new CDC iterator succeeded.
switchToCDCIterator(loaded) ==
  [snapshot |-> Nil, cdc |-> IF loaded THEN newCDCIterator(Nil) ELSE Nil]

Key(rec) == [op |-> rec.op, oc |-> rec.oc, mid |-> rec.mid]

\* the record returned by Next, and the host's bookkeeping of it
Emit(rec) ==
  /\ emitted' = Append(emitted, rec)
  /\ emittedAll' = emittedAll \cup {Key(rec)}
  /\ unacked' = Append(unacked, rec.position)
  /\ UNCHANGED <<lastAcked, ackedOk, wire, dst, pure>>

\* Source.Read with the snapshot child: CombinedIterator.HasNext (with the
\* switch to the CDC child when the snapshot reports no more rows) followed,
\* when it returns true, by snapshotIterator.Next.  f names the database call
\* that fails, if any; when CloseRows fails the snapshot child stays.
ReadSnapshot(f) ==
  /\ pc = "running"
  /\ snapshot # Nil
  /\ LET more == snapshot.rows # <<>>
         page == SnapshotPage(table, snapshot.position, cfg.batchSize)
         src  == IF more THEN snapshot.rows ELSE page
     IN
     /\ f \in {"none", "snapshotLoad", "closeRows", "cdcLoad"}
     /\ f = "snapshotLoad" => ~more
     /\ f \in {"closeRows", "cdcLoad"} => ~more /\ page = <<>>
     /\ f # "none" => nfail < MaxFail
     /\ nfail' = IF f = "none" THEN nfail ELSE nfail + 1
     /\ IF f = "snapshotLoad"
        THEN /\ ret' = Ret("Read", "snapshot", FALSE, "snapshot has next", FALSE)
             /\ UNCHANGED <<itVars, srvVars, hostVars>>
        ELSE IF f = "closeRows"
        THEN /\ ret' = Ret("Read", "snapshot", FALSE, "switch to cdc iterator", FALSE)
             /\ UNCHANGED <<itVars, srvVars, hostVars>>
        ELSE IF src # <<>>
        THEN LET pos == Position(TypeSnapshot, Int64(Head(src)), snapshot.maxValue,
                                 0, trackingTable)
                 rec == [op |-> "snapshot", oc |-> Head(src), id |-> 0, mid |-> 0,
                         position |-> ConvertToSDKPosition(pos),
                         key |-> keysMap(keys, SourceRow(Head(src))),
                         payload |-> SourceRow(Head(src))]
             IN /\ snapshot' = [rows |-> Tail(src), cur |-> Head(src),
                                position |-> pos, maxValue |-> snapshot.maxValue]
                /\ Emit(rec)
                /\ ret' = Ret("Read", "snapshot", TRUE, "", FALSE)
                /\ UNCHANGED <<trackingTable, keys, cdc, srvVars>>
        ELSE /\ snapshot' = switchToCDCIterator(f # "cdcLoad").snapshot
             /\ cdc' = switchToCDCIterator(f # "cdcLoad").cdc
             /\ UNCHANGED <<trackingTable, keys, mutex, taskKind, hostVars>>
             /\ IF f = "cdcLoad"
                THEN /\ ret' = Ret("Read", "snapshot", FALSE, "switch to cdc iterator", TRUE)
                     /\ UNCHANGED <<tableSrv, taskPc>>
                ELSE /\ tableSrv' = newTrackingTableService
                     /\ taskPc' = "wait"
                     /\ ret' = Ret("Read", "snapshot", FALSE, "", TRUE)
  /\ UNCHANGED <<dbVars, cfg, pc, inc, dbClosed, run>>

\* the record operation of a tracking row
OperationOf(op) ==
  IF op = insertOperation THEN "create"
  ELSE IF op = updateOperation THEN "update"
  ELSE IF op = deleteOperation THEN "delete"
  ELSE "ErrUnknownOperatorType"

\* cdcIterator.Next: the record built from the row of the cursor
cdcRecord(row, ks, pos) ==
  LET cols == TrackingColumnsOf(row) IN
  [op |-> OperationOf(row.op), oc |-> row.oc, id |-> row.id, mid |-> row.mid,
   position |-> ConvertToSDKPosition(pos),
   key |-> keysMap(ks, cols),
   payload |-> IF row.op \in {insertOperation, updateOperation}
               THEN cdcPayload(cols) ELSE NoPayload]

\* Source.Read with the CDC child: cdcIterator.HasNext followed, when it
\* returns true, by cdcIterator.Next.  Next sets the position before it looks
\* at the operation type, so a row of an unknown type is passed over.
ReadCDC(f) ==
  /\ pc = "running"
  /\ snapshot = Nil
  /\ cdc # Nil
  /\ f \in {"none", "cdcLoad"}
  /\ f = "cdcLoad" => cdc.rows = <<>> /\ nfail < MaxFail
  /\ nfail' = IF f = "none" THEN nfail ELSE nfail + 1
  /\ IF cdc.rows # <<>>
     THEN LET row == Head(cdc.rows)
              pos == Position(TypeCDC, NULL, NULL, row.id, trackingTable)
              rec == cdcRecord(row, keys, pos)
          IN /\ cdc' = [rows |-> Tail(cdc.rows), cur |-> row, position |-> pos]
             /\ IF rec.op = "ErrUnknownOperatorType"
                THEN /\ ret' = Ret("Read", "cdc", TRUE, rec.op, FALSE)
                     /\ UNCHANGED hostVars
                ELSE /\ Emit(rec)
                     /\ ret' = Ret("Read", "cdc", TRUE, "", FALSE)
     ELSE /\ cdc' = IF f = "cdcLoad" THEN cdc
                    ELSE [cdc EXCEPT !.rows = CdcPage(tracking[trackingTable],
                                                      cdc.position, cfg.batchSize)]
          /\ ret' = Ret("Read", "cdc", FALSE, IF f = "cdcLoad" THEN "load rows" ELSE "", FALSE)
          /\ UNCHANGED hostVars
  /\ UNCHANGED <<dbVars, cfg, pc, inc, trackingTable, keys, snapshot, srvVars, dbClosed, run>>

\* Source.Read when neither child is set: the default branch of HasNext
ReadNone ==
  /\ pc = "running"
  /\ snapshot = Nil
  /\ cdc = Nil
  /\ ret' = Ret("Read", "none", FALSE, "", FALSE)
  /\ UNCHANGED <<dbVars, cfg, pc, inc, itVars, srvVars, dbClosed, hostVars, run, nfail>>

\* the error channel never looked at
AckFails_Never(t) == FALSE

\* cdcIterator.Ack: an error waits on the error channel
AckFails(t) == t.errCh.len > 0

\* the buffer replaced by the id instead of extended with it
AckedIds_Replace(ids, pos) == <<pos.CDCLastID>>

\* the id after the position's appended
AckedIds_Following(ids, pos) == Append(ids, pos.CDCLastID + 1)

\* cdcIterator.Ack: the id of the position appended to idsForRemoving
AckedIds(ids, pos) == Append(ids, pos.CDCLastID)

\* CombinedIterator.Ack of the oldest unacknowledged record, whose position
\* the host has persisted; a CDC position goes to cdcIterator.Ack
Ack ==
  /\ pc = "running"
  /\ unacked # <<>>
  /\ LET pos == ParseSDKPosition(Head(unacked)) IN
     /\ lastAcked' = Head(unacked)
     /\ unacked' = Tail(unacked)
     /\ IF pos.IteratorType = TypeCDC
        THEN IF AckFails(tableSrv)
             THEN /\ tableSrv' = [tableSrv EXCEPT !.errCh.len = @ - 1]
                  /\ ret' = Ret("Ack", "cdc", FALSE, "clear tracking table", FALSE)
                  /\ UNCHANGED ackedOk
             ELSE /\ mutex = "free"
                  /\ tableSrv' = [tableSrv EXCEPT
                                    !.idsForRemoving = AckedIds(@, pos)]
                  /\ ackedOk' = ackedOk \cup {pos.CDCLastID}
                  /\ ret' = Ret("Ack", "cdc", FALSE, "", FALSE)
        ELSE /\ ret' = Ret("Ack", "none", FALSE, "", FALSE)
             /\ UNCHANGED <<tableSrv, ackedOk>>
  /\ UNCHANGED <<dbVars, cfg, pc, inc, itVars, mutex, taskPc, taskKind, dbClosed,
                 emitted, emittedAll, wire, dst, pure, run, nfail>>

\* trackingTableService.close
CloseChan(ch) == [ch EXCEPT !.closed = TRUE]
close(t) == [t EXCEPT !.canCloseCh = CloseChan(@), !.errCh = CloseChan(@),
                      !.stopCh = CloseChan(@)]

StopRet(child, err, via) ==
  [call |-> "Stop", child |-> child, hasNext |-> FALSE, err |-> err,
   switched |-> FALSE, via |-> via, read |-> "none"]

\* CombinedIterator.Stop with the snapshot child: snapshotIterator.Stop
StopSnapshot(f) ==
  /\ pc = "running"
  /\ snapshot # Nil
  /\ f \in {"none", "closeRows"}
  /\ f = "closeRows" => snapshot.rows # <<>> /\ nfail < MaxFail
  /\ nfail' = IF f = "none" THEN nfail ELSE nfail + 1
  /\ dbClosed' = (f = "none")
  /\ ret' = StopRet("snapshot", IF f = "none" THEN "" ELSE "close rows", "")
  /\ pc' = "stopped"
  /\ UNCHANGED <<dbVars, cfg, inc, itVars, srvVars, hostVars, run>>

\* cdcIterator.Stop up to the select: the stop signal is sent and the cursor
\* is closed
StopCDC(f) ==
  /\ pc = "running"
  /\ snapshot = Nil
  /\ cdc # Nil
  /\ f \in {"none", "closeRows"}
  /\ f = "closeRows" => cdc.rows # <<>> /\ nfail < MaxFail
  /\ nfail' = IF f = "none" THEN nfail ELSE nfail + 1
  /\ tableSrv.stopCh.len < chanCap
  /\ tableSrv' = [tableSrv EXCEPT !.stopCh.len = @ + 1]
  /\ IF f = "closeRows"
     THEN /\ ret' = StopRet("cdc", "close rows", "")
          /\ pc' = "stopped"
     ELSE /\ ret' = ret
          /\ pc' = "stopWait"
  /\ UNCHANGED <<dbVars, cfg, inc, itVars, mutex, taskPc, taskKind, dbClosed,
                 hostVars, run>>

\* cdcIterator.Stop closing the handle without waiting for the signal
StopCanClose_NoWait ==
  /\ pc = "stopWait"
  /\ tableSrv' = close(tableSrv)
  /\ dbClosed' = TRUE
  /\ ret' = StopRet("cdc", "", "signal")
  /\ pc' = "stopped"
  /\ UNCHANGED <<dbVars, cfg, inc, itVars, mutex, taskPc, taskKind, hostVars, run, nfail>>

\* cdcIterator.Stop, select branch <-canCloseCh
StopCanClose ==
  /\ pc = "stopWait"
  /\ tableSrv.canCloseCh.len > 0
  /\ tableSrv' = close([tableSrv EXCEPT !.canCloseCh.len = @ - 1])
  /\ dbClosed' = TRUE
  /\ ret' = StopRet("cdc", "", "signal")
  /\ pc' = "stopped"
  /\ UNCHANGED <<dbVars, cfg, inc, itVars, mutex, taskPc, taskKind, hostVars, run, nfail>>

\* cdcIterator.Stop, select branch <-time.After(waitingTimeoutSec)
StopTimeout ==
  /\ pc = "stopWait"
  /\ tableSrv.canCloseCh.len = 0
  /\ tableSrv' = close(tableSrv)
  /\ dbClosed' = TRUE
  /\ ret' = StopRet("cdc", "", "timeout")
  /\ pc' = "stopped"
  /\ UNCHANGED <<dbVars, cfg, inc, itVars, mutex, taskPc, taskKind, hostVars, run, nfail>>

\* CombinedIterator.Stop when neither child is set
StopNone ==
  /\ pc = "running"
  /\ snapshot = Nil
  /\ cdc = Nil
  /\ ret' = StopRet("none", "", "")
  /\ pc' = "stopped"
  /\ UNCHANGED <<dbVars, cfg, inc, itVars, srvVars, dbClosed, hostVars, run, nfail>>

\* ------------------------------------------------- clearTrackingTable task
\* a send on a channel: a closed channel panics
Send(ch) == [ch EXCEPT !.len = @ + 1]

\* clearTrackingTable without the delete on its stop branch
TaskSelect_NoFinalDelete(kind) ==
  /\ taskPc = "wait"
  /\ kind \in {"tick", "stop"}
  /\ kind = "stop" => tableSrv.stopCh.len > 0 \/ tableSrv.stopCh.closed
  /\ mutex = "free"
  /\ LET t == IF kind = "stop" /\ tableSrv.stopCh.len > 0
              THEN [tableSrv EXCEPT !.stopCh.len = @ - 1] ELSE tableSrv
     IN /\ tableSrv' = t
        /\ IF t.idsForRemoving = <<>> \/ kind = "stop"
           THEN /\ taskPc' = IF kind = "stop" THEN "signal" ELSE "wait"
                /\ taskKind' = IF kind = "stop" THEN kind ELSE taskKind
                /\ UNCHANGED mutex
           ELSE /\ taskPc' = "delete"
                /\ taskKind' = kind
                /\ mutex' = "task"
  /\ UNCHANGED <<dbVars, cfg, pc, inc, itVars, dbClosed, hostVars, ret, run, nfail>>

\* clearTrackingTable takes a branch of its select and enters deleteRows,
\* which locks the mutex; with no ids to remove deleteRows returns at once
TaskSelect(kind) ==
  /\ taskPc = "wait"
  /\ kind \in {"tick", "stop"}
  /\ kind = "stop" => tableSrv.stopCh.len > 0 \/ tableSrv.stopCh.closed
  /\ mutex = "free"
  /\ LET t == IF kind = "stop" /\ tableSrv.stopCh.len > 0
              THEN [tableSrv EXCEPT !.stopCh.len = @ - 1] ELSE tableSrv
     IN /\ tableSrv' = t
        /\ IF t.idsForRemoving = <<>>
           THEN /\ taskPc' = IF kind = "stop" THEN "signal" ELSE "wait"
                /\ taskKind' = IF kind = "stop" THEN kind ELSE taskKind
                /\ UNCHANGED mutex
           ELSE /\ taskPc' = "delete"
                /\ taskKind' = kind
                /\ mutex' = "task"
  /\ UNCHANGED <<dbVars, cfg, pc, inc, itVars, dbClosed, hostVars, ret, run, nfail>>

\* deleteRows dropping the ids when the transaction fails
TaskDelete_ForgetOnFailure(ok) ==
  /\ taskPc = "delete"
  /\ ok \in BOOLEAN
  /\ ok => ~dbClosed
  /\ ~ok /\ ~dbClosed => nfail < MaxFail
  /\ nfail' = IF ok \/ dbClosed THEN nfail ELSE nfail + 1
  /\ mutex' = "free"
  /\ IF ok
     THEN /\ tracking' = [tracking EXCEPT ![trackingTable] =
                            {r \in @ : r.id \notin Range(tableSrv.idsForRemoving)}]
          /\ tableSrv' = [tableSrv EXCEPT !.idsForRemoving = <<>>]
          /\ taskPc' = IF taskKind = "stop" THEN "signal" ELSE "wait"
     ELSE /\ UNCHANGED tracking
          /\ IF tableSrv.errCh.closed
             THEN /\ taskPc' = "panic"
                  /\ UNCHANGED tableSrv
             ELSE /\ tableSrv' = [tableSrv EXCEPT !.errCh = Send(@),
                                                  !.idsForRemoving = <<>>]
                  /\ taskPc' = IF taskKind = "stop" THEN "signal" ELSE "exited"
  /\ UNCHANGED <<table, created, nextId, tx, nmut, commits, cfg, pc, inc, itVars,
                 taskKind, dbClosed, hostVars, ret, run>>

\* deleteRows: the transaction that deletes the ids from the tracking table.
\* When it commits the ids are cleared; when it fails they are kept, and
\* clearTrackingTable sends the error on errCh and, on the tick branch, ends.
TaskDelete(ok) ==
  /\ taskPc = "delete"
  /\ ok \in BOOLEAN
  /\ ok => ~dbClosed
  /\ ~ok /\ ~dbClosed => nfail < MaxFail
  /\ nfail' = IF ok \/ dbClosed THEN nfail ELSE nfail + 1
  /\ mutex' = "free"
  /\ IF ok
     THEN /\ tracking' = [tracking EXCEPT ![trackingTable] =
                            {r \in @ : r.id \notin Range(tableSrv.idsForRemoving)}]
          /\ tableSrv' = [tableSrv EXCEPT !.idsForRemoving = <<>>]
          /\ taskPc' = IF taskKind = "stop" THEN "signal" ELSE "wait"
     ELSE /\ UNCHANGED tracking
          /\ IF tableSrv.errCh.closed
             THEN /\ taskPc' = "panic"
                  /\ UNCHANGED tableSrv
             ELSE /\ tableSrv' = [tableSrv EXCEPT !.errCh = Send(@)]
                  /\ taskPc' = IF taskKind = "stop" THEN "signal" ELSE "exited"
  /\ UNCHANGED <<table, created, nextId, tx, nmut, commits, cfg, pc, inc, itVars,
                 taskKind, dbClosed, hostVars, ret, run>>

\* clearTrackingTable, stop branch: the completion signal
TaskSignal ==
  /\ taskPc = "signal"
  /\ IF tableSrv.canCloseCh.closed
     THEN /\ taskPc' = "panic"
          /\ UNCHANGED tableSrv
     ELSE /\ tableSrv.canCloseCh.len < chanCap
          /\ tableSrv' = [tableSrv EXCEPT !.canCloseCh = Send(@)]
          /\ taskPc' = "exited"
  /\ UNCHANGED <<dbVars, cfg, pc, inc, itVars, mutex, taskKind, dbClosed, hostVars,
                 ret, run, nfail>>

\* ------------------------------------------------------------ process end
\* The connector process ends (after Stop, or by a crash); everything it held
\* in memory is gone, the database and the persisted position remain.
Crash ==
  /\ pc # "closed"
  /\ inc < MaxInc
  /\ pc' = "closed"
  /\ snapshot' = Nil
  /\ cdc' = Nil
  /\ tableSrv' = Nil
  /\ mutex' = "free"
  /\ taskPc' = "none"
  /\ taskKind' = "none"
  /\ dbClosed' = FALSE
  /\ unacked' = <<>>
  /\ emitted' = <<>>
  /\ ackedOk' = {}
  /\ ret' = NoRet
  /\ run' = [run EXCEPT !.prevEmitted = emitted, !.prevStart = run.start,
                        !.prevStopped = (pc = "stopped" /\ ret.err = ""),
                        !.prevAllAcked = (unacked = <<>>)]
  /\ UNCHANGED <<dbVars, cfg, inc, trackingTable, keys, lastAcked, emittedAll, wire,
                 dst, pure, nfail>>

\* The host has stopped the connector and starts it again.
Restart ==
  /\ pc = "stopped"
  /\ Crash

\* ------------------------------------------------------------------ spec
Write(ws, vs, max) ==
  \/ \E w \in ws, op \in Ops, v \in vs : WriterExec(w, op, v, max)
  \/ \E w \in ws : WriterCommit(w)

Read ==
  \/ \E f \in {"none", "snapshotLoad", "closeRows", "cdcLoad"} : ReadSnapshot(f)
  \/ \E f \in {"none", "cdcLoad"} : ReadCDC(f)
  \/ ReadNone

Task ==
  \/ \E kind \in {"tick", "stop"} : TaskSelect(kind)
  \/ \E ok \in BOOLEAN : TaskDelete(ok)
  \/ TaskSignal

\* Snapshot with one writer: open, read through the handoff, stop, restart.
NextSnapshot ==
  \/ Write({"w1"}, Vals, MaxMutSnapshot)
  \/ \E suffix \in Suffixes : OpenSetup(suffix)
  \/ OpenSnapshotLoad
  \/ OpenSnapshotMax
  \/ Read
  \/ Ack
  \/ \E f \in {"none", "closeRows"} : StopSnapshot(f)
  \/ StopNone
  \/ Restart

\* the usual table: its primary key is the ordering column, no keys configured
UsualKeys == cfg.primaryKeys = <<>> /\ cfg.tableKeys = <<"ID">>

InitSnapshot == Init /\ cfg.snapshot /\ UsualKeys

SpecSnapshot == InitSnapshot /\ [][NextSnapshot]_vars

\* CDC with concurrent writers and the clearing task: open, read, acknowledge,
\* and a crash before the host has persisted any position.
NextCDC ==
  \/ Write(Writers, CdcVals, MaxMut)
  \/ \E suffix \in Suffixes : OpenSetup(suffix)
  \/ OpenCDC
  \/ \E f \in {"none", "cdcLoad"} : ReadCDC(f)
  \/ Ack
  \/ TaskSelect("tick")
  \/ \E ok \in BOOLEAN : TaskDelete(ok)
  \/ (lastAcked = NilSdkPosition /\ Crash)

\* snapshot disabled in the configuration; a small table
InitCDC == Init /\ ~cfg.snapshot /\ UsualKeys /\ table \subseteq CdcVals

SpecCDC == InitCDC /\ [][NextCDC]_vars

\* CDC with concurrent writers and a crash once the host has persisted a
\* position: open, read, acknowledge, crash, open again from the position.
NextResume ==
  \/ Write(Writers, CdcVals, MaxMutResume)
  \/ \E suffix \in Suffixes : OpenSetup(suffix)
  \/ OpenCDC
  \/ ReadCDC("none")
  \/ Ack
  \/ (lastAcked # NilSdkPosition /\ Crash)

SpecResume == InitCDC /\ [][NextResume]_vars

\* CDC with one writer, the clearing task and Stop.
NextStop ==
  \/ Write({"w1"}, CdcVals, MaxMut)
  \/ \E suffix \in Suffixes : OpenSetup(suffix)
  \/ OpenCDC
  \/ \E f \in {"none", "cdcLoad"} : ReadCDC(f)
  \/ Ack
  \/ Task
  \/ \E f \in {"none", "closeRows"} : StopCDC(f)
  \/ StopCanClose
  \/ StopTimeout

SpecStop == InitCDC /\ [][NextStop]_vars

\* The records: every key configuration, one writer, a foreign tracking row;
\* open and read through the handoff.
NextRecords ==
  \/ Write({"w1"}, 1..MaxRecordVal, MaxMutRecords)
  \/ \E suffix \in Suffixes : ForeignRow(suffix)
  \/ \E suffix \in Suffixes : OpenSetup(suffix)
  \/ OpenSnapshotLoad
  \/ OpenSnapshotMax
  \/ OpenCDC
  \/ ReadSnapshot("none")
  \/ ReadCDC("none")

InitRecords == Init /\ table \subseteq 1..MaxRecordVal /\ cfg.batchSize = MaxBatch

SpecRecords == InitRecords /\ [][NextRecords]_vars

\* The start: snapshot enabled or not, one writer; open, read, acknowledge,
\* crash once a position was acknowledged, and open again from it.
NextStart ==
  \/ Write({"w1"}, CdcVals, MaxMut)
  \/ \E suffix \in Suffixes : OpenSetup(suffix)
  \/ OpenSnapshotLoad
  \/ OpenSnapshotMax
  \/ OpenCDC
  \/ ReadSnapshot("none")
  \/ ReadCDC("none")
  \/ Ack
  \/ (lastAcked # NilSdkPosition /\ Crash)

InitStart == Init /\ UsualKeys /\ table \subseteq CdcVals

SpecStart == InitStart /\ [][NextStart]_vars

\* The acknowledgements: snapshot enabled or not, one writer and the clearing
\* task on its ticker; open, read through the handoff, acknowledge.
NextAck ==
  \/ Write({"w1"}, 1..MaxRecordVal, MaxMutRecords)
  \/ \E suffix \in Suffixes : OpenSetup(suffix)
  \/ OpenSnapshotLoad
  \/ OpenSnapshotMax
  \/ OpenCDC
  \/ ReadSnapshot("none")
  \/ ReadCDC("none")
  \/ Ack
  \/ TaskSelect("tick")
  \/ \E ok \in BOOLEAN : TaskDelete(ok)

InitAck == Init /\ UsualKeys /\ table \subseteq 1..MaxRecordVal

SpecAck == InitAck /\ [][NextAck]_vars

\* The positions: a position is serialized and parsed again; a nil
\* sdk.Position is parsed.
NextPosition ==
  \/ ConvertPosition
  \/ ParsePosition

InitPosition ==
  /\ InitConnector
  /\ table = {} /\ ~cfg.snapshot /\ UsualKeys /\ cfg.batchSize = 1
  /\ wire \in {[NoWire EXCEPT !.p = p, !.step = "input"] : p \in Positions \cup {Nil}}
  /\ dst = NoDst /\ pure = NoPure

SpecPosition == InitPosition /\ [][NextPosition]_vars

\* The destination: Write calls with batches of records over a table with a
\* single-column or a composite primary key.
NextDestination ==
  \/ /\ dst.total + 1 <= MaxDstRecords
     /\ \E r1 \in DstRecords(dst.pk) : DestinationWrite(<<r1>>)
  \/ /\ dst.total + 2 <= MaxDstRecords
     /\ \E r1, r2 \in DstRecords(dst.pk) : DestinationWrite(<<r1, r2>>)

InitDestination ==
  /\ InitConnector
  /\ table = {} /\ ~cfg.snapshot /\ UsualKeys /\ cfg.batchSize = 1
  /\ wire = NoWire /\ pure = NoPure
  /\ dst \in {[NoDst EXCEPT !.pk = pk] : pk \in PrimaryKeys}

SpecDestination == InitDestination /\ [][NextDestination]_vars

\* The configuration: Parse applied to every configuration map.
NextConfig == ConfigParse

InitConfig ==
  /\ InitConnector
  /\ table = {} /\ ~cfg.snapshot /\ UsualKeys /\ cfg.batchSize = 1
  /\ wire = NoWire /\ dst = NoDst
  /\ pure \in {Pure("Parse", m) : m \in ConfigInputs}

SpecConfig == InitConfig /\ [][NextConfig]_vars

\* The decimal conversion applied to every value of a decimal column.
NextDecimal == ConvertToDecimal

InitDecimal ==
  /\ InitConnector
  /\ table = {} /\ ~cfg.snapshot /\ UsualKeys /\ cfg.batchSize = 1
  /\ wire = NoWire /\ dst = NoDst
  /\ pure \in {Pure("convertToDecimal", v) : v \in DecimalInputs}

SpecDecimal == InitDecimal /\ [][NextDecimal]_vars

\* The clearing task under fair scheduling: open, read, acknowledge and stop.
\* The task's goroutine is scheduled as long as it can take a step, so the
\* 20 seconds of Stop pass only when the task has ended without the signal.
\* One writer changes one row; the timer fires again and again.
NextReclaim ==
  \/ Write({"w1"}, {Min(CdcVals)}, MaxMutReclaim)
  \/ \E suffix \in Suffixes : OpenSetup(suffix)
  \/ OpenCDC
  \/ \E f \in {"none", "cdcLoad"} : ReadCDC(f)
  \/ Ack
  \/ Task
  \/ \E f \in {"none", "closeRows"} : StopCDC(f)
  \/ StopCanClose
  \/ (taskPc \in {"exited", "panic"} /\ StopTimeout)

InitReclaim == InitCDC /\ table = {} /\ cfg.batchSize = 1

FairTask ==
  /\ WF_vars(TaskSelect("tick"))
  /\ WF_vars(TaskSelect("stop"))
  /\ WF_vars(\E ok \in BOOLEAN : TaskDelete(ok))
  /\ WF_vars(TaskSignal)

SpecReclaim == InitReclaim /\ [][NextReclaim]_vars /\ FairTask

\* A fixed table and a fixed journal under every batch size: the writer works
\* between the journal setup and the first page load, then the host reads.
NextBatch ==
  \/ (pc = "setup" /\ Write({"w1"}, CdcVals, MaxMutBatch))
  \/ \E suffix \in Suffixes : OpenSetup(suffix)
  \/ OpenSnapshotLoad
  \/ OpenSnapshotMax
  \/ OpenCDC
  \/ ReadSnapshot("none")
  \/ ReadCDC("none")

InitBatch == Init /\ UsualKeys /\ table \subseteq CdcVals

SpecBatch == InitBatch /\ [][NextBatch]_vars

\* The setup: one writer; Open with setupCDC succeeding or failing at one of
\* its steps, and the process ending so that Open runs again.
NextSetup ==
  \/ Write({"w1"}, CdcVals, MaxMut)
  \/ \E suffix \in Suffixes : OpenSetup(suffix)
  \/ \E suffix \in Suffixes, failAt \in Range(SetupSteps) : OpenSetupFails(suffix, failAt)
  \/ Crash

SpecSetup == InitCDC /\ [][NextSetup]_vars

\* ================================================================ claims
\* the ordering values of the snapshot records in a sequence of records
RECURSIVE SnapshotValues(_)
SnapshotValues(recs) ==
  IF recs = <<>> THEN <<>>
  ELSE IF Head(recs).op = "snapshot"
       THEN <<Head(recs).oc>> \o SnapshotValues(Tail(recs))
       ELSE SnapshotValues(Tail(recs))

IsPrefix(s, t) == Len(s) <= Len(t) /\ \A k \in 1..Len(s) : s[k] = t[k]

\* no transaction has committed since this incarnation of the connector began
UnmodifiedSinceOpen == \A k \in 1..Len(commits) : commits[k].inc # inc

\* the rows of the table at open that are not above the maximum read at open
CutAtOpen == {v \in run.openTable : SqlLE(v, MaxValue(run.openTable))}

\* C1: on a table with unique ordering values that no transaction modifies
\* during the snapshot, for either batch size, a snapshot iterator opened with
\* a null position emits, before HasNext first returns false, exactly one
\* snapshot record for every row whose ordering value is at most the maximum
\* read at open, in strictly increasing order of the ordering value, and no
\* other record.
C1_SnapshotCoverage ==
  (pc = "running" /\ cfg.snapshot /\ run.start = NilSdkPosition /\ UnmodifiedSinceOpen)
    => IF snapshot # Nil
       THEN /\ Len(SnapshotValues(emitted)) = Len(emitted)
            /\ IsPrefix(SnapshotValues(emitted), SortedSeq(CutAtOpen))
       ELSE SnapshotValues(emitted) = SortedSeq(CutAtOpen)

\* C1 witness: three rows were emitted one page each and the snapshot has
\* handed off
C1_Witness ==
  /\ pc = "running" /\ run.start = NilSdkPosition /\ UnmodifiedSinceOpen
  /\ cfg.batchSize = 1
  /\ snapshot = Nil /\ ret.switched
  /\ Len(SnapshotValues(emitted)) = 3

\* --------------------------------------------------------------- CDC claims
EmittedMids == {emitted[k].mid : k \in 1..Len(emitted)}

\* a tracking row the CDC child can still return: it is in the loaded page or
\* a later page load selects it
StillAhead(r) ==
  /\ cdc # Nil
  /\ \/ r \in Range(cdc.rows)
     \/ IF cdc.position = Nil THEN TRUE ELSE r.id > cdc.position.CDCLastID

CommitIndex(m) == CHOOSE k \in 1..Len(commits) : commits[k].mid = m

\* C2: every insert, update or delete committed after setupCDC succeeded has
\* a tracking row that Next returns, with the matching operation, and the
\* records appear in commit order, also when writers commit concurrently with
\* the page loads.  Stated as safety: no committed tracking row is behind the
\* reader without having been returned, and returned rows follow commit order.
C2_CommittedMutationsReturned ==
  (pc = "running" /\ cdc # Nil /\ run.start = NilSdkPosition) =>
    /\ \A r \in tracking[trackingTable] : r.mid \in EmittedMids \/ StillAhead(r)
    /\ \A k \in 1..Len(emitted) :
         emitted[k].op = OperationOf(commits[CommitIndex(emitted[k].mid)].op)
    /\ \A i, j \in 1..Len(emitted) :
         i < j => CommitIndex(emitted[i].mid) < CommitIndex(emitted[j].mid)

\* C4: within one CDC iterator the tracking id of each returned record is
\* strictly greater than that of every record returned before it, across page
\* boundaries and while the clearing task deletes acknowledged rows.
C4_TrackingIdsIncrease ==
  \A i, j \in 1..Len(emitted) :
    (i < j /\ emitted[i].op # "snapshot" /\ emitted[j].op # "snapshot")
      => emitted[i].id < emitted[j].id

\* C4 witness: two records were returned from two pages and the clearing task
\* has deleted the row of the first
C4_Witness ==
  /\ pc = "running" /\ cdc # Nil /\ cfg.batchSize = 1
  /\ Len(emitted) = 2
  /\ emitted[1].id \in ackedOk
  /\ emitted[1].id \notin {r.id : r \in tracking[trackingTable]}

\* C6: a CDC iterator opened with position {cdc, k} returns exactly the
\* tracking rows whose id is greater than k, in increasing order, and never a
\* row whose id is at most k.
C6_ResumeReturnsRowsAfterK ==
  (pc = "running" /\ cdc # Nil /\ run.start # NilSdkPosition) =>
    /\ \A i \in 1..Len(emitted) : emitted[i].id > run.startId
    /\ \A i, j \in 1..Len(emitted) : i < j => emitted[i].id < emitted[j].id
    /\ \A r \in tracking[trackingTable] :
         r.id > run.startId => r.mid \in EmittedMids \/ StillAhead(r)

\* ---------------------------------------------------------- restart claims
\* C3: across crashes and restarts, each restart opening the source with the
\* position of the last acknowledged record (null if there is none), every
\* mutation captured after the first journal setup is emitted at least once
\* over all incarnations.  Stated as safety: a captured mutation that no
\* incarnation has emitted still has a tracking row ahead of the running
\* connector.
C3_NoCapturedMutationLost ==
  pc # "closed" =>
    \A k \in 1..Len(commits) :
      commits[k].captured # {} =>
        \/ commits[k].mid \in {e.mid : e \in emittedAll}
        \/ \E r \in tracking[trackingTable] :
             r.mid = commits[k].mid /\ (cdc = Nil \/ StillAhead(r))

\* a snapshot that started from a null position, emitted k >= 1 records, all
\* acknowledged, on a table nobody changed meanwhile, was stopped, and is now
\* resumed from the position of the k-th record
ResumedSnapshot ==
  /\ pc = "running" /\ cfg.snapshot
  /\ run.prevStart = NilSdkPosition /\ run.prevStopped /\ run.prevAllAcked
  /\ Len(run.prevEmitted) >= 1
  /\ Len(SnapshotValues(run.prevEmitted)) = Len(run.prevEmitted)
  /\ run.start = run.prevEmitted[Len(run.prevEmitted)].position
  /\ \A k \in 1..Len(commits) :
       /\ commits[k].inc # inc
       /\ commits[k].inc = inc - 1 =>
            commits[k].at = "closed" /\ commits[k].op = insertOperation

\* the ordering values of the rows inserted between the two runs
InsertedBetweenRuns ==
  {commits[k].oc : k \in {j \in 1..Len(commits) : commits[j].inc = inc - 1}}

ResumeCompletesCut ==
  LET both == SnapshotValues(run.prevEmitted) \o SnapshotValues(emitted)
  IN IF snapshot # Nil
     THEN /\ snapshot.maxValue = ParseSDKPosition(run.start).SnapshotMaxValue
          /\ Len(SnapshotValues(emitted)) = Len(emitted)
          /\ IsPrefix(both, SortedSeq(CutAtOpen))
     ELSE both = SortedSeq(CutAtOpen)

C7_NoLateInsertInSnapshot ==
  \A k \in 1..Len(emitted), c \in 1..Len(commits) :
    ~(/\ emitted[k].op = "snapshot"
      /\ commits[c].op = insertOperation
      /\ commits[c].inc = inc /\ commits[c].at = "run"
      /\ commits[c].oc = emitted[k].oc
      /\ k > commits[c].n)

\* a HasNext call that found the snapshot child exhausted and returned no error
HandoffCall ==
  /\ pc = "running" /\ snapshot # Nil
  /\ snapshot.rows = <<>>
  /\ SnapshotPage(table, snapshot.position, cfg.batchSize) = <<>>
  /\ ret' # ret /\ ret'.call = "Read" /\ ret'.err = ""

\* a HasNext call made after the handoff
CallAfterHandoff ==
  /\ pc = "running" /\ snapshot = Nil /\ cdc # Nil
  /\ ret' # ret /\ ret'.call = "Read"

\* C8: the HasNext call in which the snapshot child reports no more rows drops
\* the snapshot child, installs a CDC child with a nil position holding the
\* first page of the tracking table, and returns false; the next call is
\* served by the CDC child, and the snapshot child is not set again.
C8_Handoff ==
  [][/\ HandoffCall =>
          /\ snapshot' = Nil
          /\ cdc' = [rows |-> CdcPage(tracking[trackingTable], Nil, cfg.batchSize),
                     cur |-> Nil, position |-> Nil]
          /\ ret'.child = "snapshot" /\ ~ret'.hasNext
     /\ CallAfterHandoff => ret'.child = "cdc"
     /\ (pc = "running" /\ snapshot = Nil /\ pc' = "running") => snapshot' = Nil
    ]_vars

\* C8 witness: the handoff call has returned and the CDC child holds a first
\* page of the tracking table
C8_Witness ==
  /\ pc = "running"
  /\ ret = Ret("Read", "snapshot", FALSE, "", TRUE)
  /\ snapshot = Nil /\ cdc # Nil
  /\ cdc.position = Nil /\ cdc.rows # <<>>
  /\ Len(emitted) >= 1

\* C9: in every state after NewCombinedIterator succeeded exactly one of the
\* snapshot child and the CDC child is set.
C9_ExactlyOneChild ==
  pc \in {"running", "stopWait", "stopped"} => (snapshot = Nil) # (cdc = Nil)

\* --------------------------------------------------------------- Stop claim
NoAckedRowRemains ==
  \A r \in tracking[trackingTable] : r.id \notin ackedOk

LoadsNonEmptyPage ==
  /\ pc = "running" /\ pc' = "running"
  /\ snapshot = Nil /\ cdc # Nil /\ cdc' # Nil
  /\ cdc.rows = <<>>
  /\ CdcPage(tracking[trackingTable], cdc.position, cfg.batchSize) # <<>>
  /\ cdc'.rows # <<>>

\* C11: when the cursor of the CDC child is exhausted and the tracking table
\* holds a row above the last returned id, the HasNext call that loads the
\* next page returns true.
C11_LoadingCallReturnsTrue ==
  [][LoadsNonEmptyPage => ret'.call = "Read" /\ ret'.hasNext]_vars

\* ----------------------------------------------------------- record claims
CdcRecords == {k \in 1..Len(emitted) : emitted[k].op # "snapshot"}

\* the tracking row a CDC record was built from
RowOf(e) == CHOOSE r \in tracking[trackingTable] : r.id = e.id

\* C12: Next maps INSERT to a create record and UPDATE to an update record
\* whose payload is the row without the two tracking columns, DELETE to a
\* delete record with a key and no payload, and any other operation type to
\* ErrUnknownOperatorType; the mutations of one row come out in their order.
C12_NextMapsOperation ==
  /\ \A k \in CdcRecords :
       LET e == emitted[k]
           r == RowOf(e)
       IN /\ r.op = insertOperation => e.op = "create"
          /\ r.op = updateOperation => e.op = "update"
          /\ r.op = deleteOperation => e.op = "delete"
          /\ r.op \in Ops
          /\ IF r.op = deleteOperation
             THEN e.payload = NoPayload /\ DOMAIN e.key # {}
             ELSE /\ DOMAIN e.payload = Columns
                  /\ \A c \in Columns : e.payload[c] = r.oc
  /\ (/\ pc = "running" /\ cdc # Nil /\ cdc.cur # Nil
      /\ ret.call = "Read" /\ ret.child = "cdc" /\ ret.hasNext
      /\ cdc.cur.op \notin Ops)
       => ret.err = "ErrUnknownOperatorType"
  /\ \A i, j \in CdcRecords :
       (i < j /\ emitted[i].oc = emitted[j].oc)
         => CommitIndex(emitted[i].mid) < CommitIndex(emitted[j].mid)

\* C12 witness: the insert, update and delete of one row were returned as
\* create, update, delete, and the call after them refused a row of a
\* foreign operation type
C12_Witness ==
  /\ pc = "running" /\ cdc # Nil /\ cdc.cur # Nil
  /\ Len(emitted) = 3
  /\ <<emitted[1].op, emitted[2].op, emitted[3].op>> = <<"create", "update", "delete">>
  /\ emitted[1].oc = emitted[3].oc /\ emitted[2].oc = emitted[3].oc
  /\ cdc.cur.op \notin Ops /\ cdc.cur.id > emitted[3].id
  /\ ret.call = "Read" /\ ret.err = "ErrUnknownOperatorType"

\* the key columns the claim names
ClaimedKeys ==
  IF Len(cfg.primaryKeys) > 0
  THEN {ToUpper(cfg.primaryKeys[k]) : k \in 1..Len(cfg.primaryKeys)}
  ELSE IF Len(cfg.tableKeys) > 0 THEN Range(cfg.tableKeys)
  ELSE {orderingColumn}

\* C13: the key columns of every emitted record, of the snapshot child and of
\* the CDC child, are the configured primaryKeys uppercased, else the primary
\* key columns of the table descriptor, else the ordering column.
C13_KeyColumns ==
  \A k \in 1..Len(emitted) : DOMAIN emitted[k].key = ClaimedKeys

\* ------------------------------------------------------------ start claims
\* NewCombinedIterator has just returned
JustOpened == pc = "running" /\ ret.call = "Open"

StartPos == ParseSDKPosition(run.start)

\* the mutations committed since the journal of this connector exists
Captured == SelectSeq(commits, LAMBDA c : trackingTable \in c.captured)

\* C14: NewCombinedIterator starts with the snapshot child iff snapshot is
\* enabled and the position is null or a snapshot position; otherwise it
\* starts with the CDC child, which resumes from the position when one is
\* given.  With snapshot disabled and a null position no snapshot record is
\* emitted, no record is built from a row that was in the table before the
\* journal was set up, and the first record is the CDC record of the first
\* mutation made after that.
C14_StartChild ==
  /\ JustOpened =>
       /\ snapshot # Nil <=>
            (cfg.snapshot /\ (run.start = NilSdkPosition
                              \/ StartPos.IteratorType = TypeSnapshot))
       /\ snapshot = Nil => (cdc # Nil /\ cdc.position = StartPos)
       /\ snapshot # Nil => cdc = Nil
       /\ (cdc # Nil /\ StartPos # Nil) =>
            \A k \in 1..Len(cdc.rows) : cdc.rows[k].id > StartPos.CDCLastID
  /\ (pc = "running" /\ ~cfg.snapshot /\ run.start = NilSdkPosition) =>
       /\ \A k \in 1..Len(emitted) :
            /\ emitted[k].op # "snapshot"
            /\ \E c \in 1..Len(commits) :
                 commits[c].mid = emitted[k].mid /\ commits[c].at # "closed"
       /\ emitted # <<>> => emitted[1].mid = Captured[1].mid

\* C14 witness: with snapshot disabled and a null position a table that had a
\* row before Open has given, as first record, the one of the mutation made
\* after Open
C14_Witness ==
  /\ pc = "running" /\ ~cfg.snapshot /\ run.start = NilSdkPosition
  /\ \E c \in 1..Len(commits) :
       commits[c].at = "closed" /\ commits[c].op = insertOperation
                                /\ commits[c].oc \in table
  /\ Len(emitted) = 1 /\ emitted[1].op # "snapshot"
  /\ \E c \in 1..Len(commits) : commits[c].at = "run" /\ commits[c].mid = emitted[1].mid

\* -------------------------------------------------------------- ack claims
\* a step of CombinedIterator.Ack, and the position it is called with
AckStep == pc = "running" /\ pc' = "running" /\ unacked # <<>> /\ unacked' = Tail(unacked)
AckPos == ParseSDKPosition(Head(unacked))

\* every iterator field but the pending buffer is left alone
AckFrame ==
  /\ UNCHANGED <<dbVars, itVars, mutex, taskPc, taskKind, dbClosed>>
  /\ tableSrv # Nil =>
       /\ tableSrv'.stopCh = tableSrv.stopCh
       /\ tableSrv'.errCh = tableSrv.errCh
       /\ tableSrv'.canCloseCh = tableSrv.canCloseCh

AckSnapshotNoOp ==
  (AckStep /\ AckPos.IteratorType = TypeSnapshot)
     => ret'.err = "" /\ AckFrame /\ tableSrv' = tableSrv

\* C15: Ack with a snapshot position returns nil and changes no iterator
\* field; with a CDC position it appends exactly the position's CDCLastID to
\* idsForRemoving of the CDC child and changes nothing else.
C15_AckFrame ==
  [][/\ AckSnapshotNoOp
     /\ (AckStep /\ AckPos.IteratorType = TypeCDC)
          => /\ AckFrame
             /\ tableSrv'.idsForRemoving =
                  Append(tableSrv.idsForRemoving, AckPos.CDCLastID)]_vars

\* C15 amended: as C15 when the error channel is empty; when an error waits
\* on it Ack returns that error, takes it off the channel and appends nothing.
C15_AckFrameUnlessError ==
  [][/\ AckSnapshotNoOp
     /\ (AckStep /\ AckPos.IteratorType = TypeCDC /\ tableSrv.errCh.len = 0)
          => /\ ret'.err = ""
             /\ AckFrame
             /\ tableSrv'.idsForRemoving =
                  Append(tableSrv.idsForRemoving, AckPos.CDCLastID)
     /\ (AckStep /\ AckPos.IteratorType = TypeCDC /\ tableSrv.errCh.len > 0)
          => /\ ret'.err = "clear tracking table"
             /\ tableSrv' = [tableSrv EXCEPT !.errCh.len = @ - 1]
             /\ UNCHANGED <<dbVars, itVars, mutex, taskPc, taskKind, dbClosed>>]_vars

\* C15 witness: after the handoff a snapshot position and then two CDC
\* positions were acknowledged and both ids wait in the buffer
C15_Witness ==
  /\ pc = "running" /\ cfg.snapshot /\ cdc # Nil
  /\ \E k \in 1..Len(emitted) : emitted[k].op = "snapshot"
  /\ ret.call = "Ack" /\ ret.err = ""
  /\ Len(tableSrv.idsForRemoving) = 2
  /\ lastAcked # NilSdkPosition
  /\ ParseSDKPosition(lastAcked).CDCLastID = tableSrv.idsForRemoving[2]

\* C16: when the clearing task has put an error on errCh the next Ack with a
\* CDC position returns it; HasNext and Next do not look at the channel: a
\* read with a journal row in the cursor returns it, error waiting or not.
ReadStep == ret'.call = "Read" /\ ret' # ret /\ pc = "running" /\ cdc # Nil /\ snapshot = Nil
C16_AckSurfacesError ==
  [][/\ (AckStep /\ AckPos.IteratorType = TypeCDC /\ tableSrv.errCh.len > 0)
          => ret'.err = "clear tracking table"
     /\ (ReadStep /\ cdc.rows # <<>> /\ Head(cdc.rows).op \in Ops)
          => /\ ret'.hasNext /\ ret'.err = ""
             /\ emitted' = Append(emitted, cdcRecord(Head(cdc.rows), keys, cdc'.position))
     /\ ReadStep => tableSrv' = tableSrv]_vars

\* C16 witness: a record was returned while the error waited on errCh, and
\* the Ack that followed returned the error
C16_Witness ==
  /\ pc = "running" /\ cdc # Nil
  /\ taskPc = "exited"
  /\ ret.call = "Ack" /\ ret.err = "clear tracking table"
  /\ tableSrv.errCh.len = 0
  /\ Len(emitted) >= 2 /\ unacked = <<>>

\* ------------------------------------------------------------- stop claims
\* C17: cdcIterator.Stop terminates and on every return path, the one on
\* which closing the cursor fails included, the database handle has been
\* released.
C17_StopReleasesHandle ==
  (pc = "stopped" /\ ret.call = "Stop" /\ ret.child = "cdc") => dbClosed

\* --------------------------------------------------------- position claims
\* C18: ParseSDKPosition(ConvertToSDKPosition(p)) = p for every position
\* with tag snapshot or cdc, ParseSDKPosition(nil) is a nil position without
\* error, and a serialized position with any other tag is rejected with
\* ErrUnknownIteratorType.
C18_PositionRoundTrip ==
  wire.step = "parsed" =>
    IF wire.p = Nil THEN wire.parsed = Nil
    ELSE IF wire.p.IteratorType \in {TypeSnapshot, TypeCDC} THEN wire.parsed = wire.p
    ELSE wire.parsed = ErrUnknownIteratorType

\* ---------------------------------------------------------- journal claims
\* a step of setupCDC for the suffix the iterator then holds
SetupStep == pc = "closed" /\ pc' = "setup"

ReadCall ==
  /\ pc = "running" /\ pc' = "running"
  /\ ret'.call = "Read"
  /\ (ret' # ret \/ snapshot' # snapshot \/ cdc' # cdc \/ nfail' # nfail)

\* C21: Source.Read returns ErrBackoffRetry and no record when HasNext
\* returns false without error, the record of Next when HasNext returns
\* true, and an error when HasNext or Next fails.
C21_ReadOutcome ==
  [][ReadCall =>
       /\ (~ret'.hasNext /\ ret'.err = "")
            => ret'.read = "ErrBackoffRetry" /\ emitted' = emitted
       /\ (ret'.hasNext /\ ret'.err = "")
            => /\ ret'.read = "record"
               /\ Len(emitted') = Len(emitted) + 1
               /\ SubSeq(emitted', 1, Len(emitted)) = emitted
       /\ ret'.err # "" => ret'.read = "error" /\ emitted' = emitted]_vars

\* C21 witness: the first Read of an empty table answered ErrBackoffRetry
C21_Witness ==
  /\ pc = "running" /\ cfg.snapshot /\ inc = 1
  /\ table = {} /\ commits = <<>>
  /\ ret.call = "Read" /\ ~ret.hasNext /\ ret.err = ""
  /\ ret.read = "ErrBackoffRetry"
  /\ emitted = <<>>

\* ---- C22
RowsUnder(tbl, k) == {row \in tbl : \A c \in DOMAIN k : row[c] = k[c]}
Others(tbl, k) == tbl \ RowsUnder(tbl, k)
Steps == {dst.trace[i] : i \in 1..Len(dst.trace)}

\* C22: the destination table read as a map from key to row: an Update(r') that
\* succeeds on a key some row was inserted under leaves exactly r' under that
\* key, a Delete(r) that succeeds leaves no row under r's key, and both leave
\* the rows under every other key as they were; single and composite keys.
C22_KeyedTable ==
  \A s \in Steps :
    s.err = "" /\ s.method \in {"Update", "Delete"} =>
      LET k == s.record.Key.m
      IN /\ Others(s.after, k) = Others(s.before, k)
         /\ s.method = "Delete" => RowsUnder(s.after, k) = {}
         /\ s.method = "Update" /\ RowsUnder(s.before, k) # {} =>
              RowsUnder(s.after, k) = {s.record.Payload.m}

C22_Witness ==
  /\ dst.pk = {"ID", "K2"}
  /\ Len(dst.trace) = 2
  /\ dst.err = ""
  /\ dst.trace[1].method = "Insert" /\ dst.trace[1].before # {}
  /\ dst.trace[2].method = "Update"
  /\ dst.trace[2].record.Key = dst.trace[1].record.Key
  /\ dst.trace[2].record.Payload # dst.trace[1].record.Payload
  /\ dst.trace[2].record.Payload.m \in dst.tbl
  /\ Cardinality(dst.tbl) = 2

\* ---- C23
MethodFor(op) ==
  IF op \in {"create", "snapshot"} THEN "Insert"
  ELSE IF op = "update" THEN "Update" ELSE "Delete"

RoutedInOrder(n) ==
  /\ Len(dst.trace) = n
  /\ \A i \in 1..n : /\ dst.trace[i].record = dst.records[i]
                     /\ dst.trace[i].method = MethodFor(dst.records[i].Operation)

\* C23 as stated: Destination.Write invokes exactly one writer method for every
\* record of the batch, in order: Insert for create and snapshot, Update for
\* update, Delete for delete.
C23_RoutesEveryRecord == RoutedInOrder(Len(dst.records))

\* C23: Destination.Write invokes exactly one writer method, chosen by the
\* operation (create and snapshot: Insert, update: Update, delete: Delete), for
\* every record in order up to and including the first record whose method
\* fails; it returns the number of records before that one and invokes no
\* method for the records after it.
C23_RoutesUntilFirstError ==
  /\ RoutedInOrder(IF dst.err = "" THEN Len(dst.records) ELSE dst.n + 1)
  /\ dst.n <= Len(dst.records)
  /\ dst.err = "" => dst.n = Len(dst.records)
  /\ \A i \in 1..Len(dst.trace) : dst.trace[i].err # "" <=> (dst.err # "" /\ i = dst.n + 1)

C23_Witness ==
  /\ Len(dst.records) = 2
  /\ dst.records[1].Operation = "update" /\ dst.records[2].Operation = "snapshot"
  /\ dst.err = "ErrNoKey" /\ dst.n = 0
  /\ Len(dst.trace) = 1 /\ dst.trace[1].method = "Update"

\* ---- C24
Empty(data) == data.kind # "structured" \/ DOMAIN data.m = {}
Refused(s, err) == s.err = err /\ ~s.sql /\ s.after = s.before

\* C24: Insert answers ErrNoPayload for an absent or empty payload, Update
\* answers ErrNoPayload for an absent or empty payload and ErrNoKey for an empty
\* key, Delete answers ErrNoKey for an empty key; in each case no SQL statement
\* is executed and the table is unchanged.
C24_EmptyInputsRefused ==
  \A s \in Steps :
    /\ s.method = "Insert" /\ Empty(s.record.Payload) => Refused(s, "ErrNoPayload")
    /\ s.method = "Update" /\ Empty(s.record.Payload) => Refused(s, "ErrNoPayload")
    /\ s.method = "Update" /\ ~Empty(s.record.Payload) /\ Empty(s.record.Key) =>
         Refused(s, "ErrNoKey")
    /\ s.method = "Delete" /\ Empty(s.record.Key) => Refused(s, "ErrNoKey")

\* ---- C25
Required(mechanism) ==
  IF mechanism = "DSN" THEN <<"dsn">>
  ELSE IF mechanism = "Basic" THEN <<"host", "username", "password">>
  ELSE IF mechanism = "JWT" THEN <<"host", "token">>
  ELSE <<"host", "clientKeyFile", "clientCertFile">>

ErrRequired(param) ==
  IF param = "dsn" THEN "errRequiredDSNParameter"
  ELSE IF param = "host" THEN "errRequiredHostParameter"
  ELSE IF param = "username" THEN "errRequiredUsernameParameter"
  ELSE IF param = "password" THEN "errRequiredPasswordParameter"
  ELSE IF param = "token" THEN "errRequiredTokenParameter"
  ELSE IF param = "clientKeyFile" THEN "errRequiredClientKeyFileParameter"
  ELSE "errRequiredClientCertFileParameter"

Parsed == pure.fn = "Parse" /\ pure.step = "done"

\* C25: the auth validation accepts a configuration exactly when every
\* parameter its mechanism requires is non-empty (DSN: dsn; Basic: host,
\* username, password; JWT: host, token; X509: host, client key file, client
\* cert file), reports the first missing parameter in that order otherwise, takes
\* an unset mechanism as DSN and rejects any other mechanism with
\* ErrInvalidAuthMechanism.
C25_AuthValidation ==
  Parsed =>
    LET m == pure.arg
        mechanism == IF m.mechanism = "" THEN "DSN" ELSE m.mechanism
        req == Required(mechanism)
        missing == {i \in 1..Len(req) : m[req[i]] = ""}
    IN IF mechanism \notin {"DSN", "Basic", "JWT", "X509"}
       THEN pure.out.err = "ErrInvalidAuthMechanism"
       ELSE /\ pure.out.err = "" <=> missing = {}
            /\ pure.out.err = "" => pure.out.Auth.Mechanism = mechanism
            /\ missing # {} =>
                 pure.out.err = ErrRequired(req[CHOOSE i \in missing : \A j \in missing : i <= j])

C25_Witness ==
  /\ Parsed
  /\ pure.arg.mechanism = "" /\ pure.arg.dsn # "" /\ pure.arg.host = ""
  /\ pure.out.err = "" /\ pure.out.Auth.Mechanism = "DSN"

\* ---- C26
IsNumber(str) == str # <<>> /\ \A i \in 1..Len(str) : str[i] \in Digits
Dotted(str) ==
  \E i \in 1..Len(str) :
    str[i] = "." /\ IsNumber(SubSeq(str, 1, i - 1)) /\ IsNumber(SubSeq(str, i + 1, Len(str)))
NumDen(str) ==
  \E i \in 1..Len(str) :
    /\ str[i] = "/" /\ IsNumber(SubSeq(str, 1, i - 1))
    /\ IsNumber(SubSeq(str, i + 1, Len(str)))
    /\ DigitsValue(SubSeq(str, i + 1, Len(str))) > 0
Converted == pure.fn = "convertToDecimal" /\ pure.step = "done"

\* C26: for a DECIMAL or SMALLDECIMAL column convertToDecimal succeeds for a
\* float64, a float32, a dotted string, a num/den string, an int64 i and an
\* int32 i, both integer kinds giving the rational i/1; a value of any other
\* kind fails with ErrCannotConvertValueToDecimal.
C26_DecimalKinds ==
  Converted =>
    LET val == pure.arg
    IN /\ val.kind \in {"float64", "float32"} => pure.out.err = ""
       /\ val.kind = "string" /\ (Dotted(val.str) \/ NumDen(val.str)) => pure.out.err = ""
       /\ val.kind \in {"int64", "int32"} =>
            pure.out.err = "" /\ pure.out.rat = <<val.n, 1>>
       /\ val.kind \in {"int", "uint8", "bool"} =>
            pure.out.err = "ErrCannotConvertValueToDecimal"

\* ---- C27
StopSignalSent == pc \in {"stopWait", "stopped"} /\ ret.child # "snapshot" /\ cdc # Nil
CompletionSent == taskPc = "exited" /\ taskKind = "stop"

\* C27: whenever Stop has sent the stop signal, the clearing task eventually
\* performs its final drain of the pending-ack buffer and then sends the
\* completion signal, whatever state the task is in, an earlier failed tick
\* included.
C27_StopIsServed == StopSignalSent ~> CompletionSent

\* the task ended on a failed tick and the stop signal waits unreceived
C27_TaskGone ==
  /\ taskPc = "exited" /\ taskKind = "tick"
  /\ pc = "stopWait"
  /\ tableSrv.stopCh.len = 1 /\ tableSrv.canCloseCh.len = 0
  /\ tableSrv.idsForRemoving # <<>>

\* ---- C28
\* C28: cdcIterator.Stop closes the database handle only after the clearing
\* task has sent its completion signal or the 20 s timeout has fired.
C28_CloseAfterSignalOrTimeout ==
  dbClosed /\ cdc # Nil =>
    /\ ret.call = "Stop" /\ ret.via \in {"signal", "timeout"}
    /\ ret.via = "signal" => CompletionSent

C28_Witness ==
  /\ dbClosed /\ cdc # Nil
  /\ ret.via = "signal"
  /\ CompletionSent
  /\ commits # <<>> /\ tracking[trackingTable] = {}

\* ---- C29
TickDelete == taskPc = "delete" /\ taskKind = "tick" /\ taskPc' # "delete"
Buffered == Range(tableSrv.idsForRemoving)
JournalKept == tracking' = tracking
JournalWithout(ids) ==
  tracking' = [tracking EXCEPT ![trackingTable] = {r \in @ : r.id \notin ids}]

\* C29: a tick that finds ids in the pending-ack buffer deletes exactly the
\* journal rows with those ids in one committed transaction and empties the
\* buffer; when the delete or the commit fails the buffer keeps all its ids and
\* no journal row is removed; the source table is never touched.
C29_TickDeletes ==
  [][TickDelete =>
       /\ tableSrv.idsForRemoving # <<>>
       /\ table' = table
       /\ \/ /\ JournalWithout(Buffered)
             /\ tableSrv'.idsForRemoving = <<>>
          \/ /\ JournalKept
             /\ tableSrv'.idsForRemoving = tableSrv.idsForRemoving]_vars

\* C29, empty buffer: deleteRows opens a transaction only when the buffer holds
\* ids, so a tick with an empty buffer issues no statement.
C29_NoStatementWhenEmpty == taskPc = "delete" => tableSrv.idsForRemoving # <<>>

\* C29: on a tick with ids in the buffer exactly those journal rows are deleted
\* in one committed transaction and the buffer is emptied, or on failure buffer
\* and journal stay as they were; with an empty buffer no statement is issued.
C29_Tick == C29_TickDeletes /\ []C29_NoStatementWhenEmpty

C29_Witness ==
  /\ pc = "running"
  /\ taskPc = "wait" /\ taskKind = "tick"
  /\ tableSrv.idsForRemoving = <<>>
  /\ Cardinality(ackedOk) = 1
  /\ Cardinality(tracking[trackingTable]) = 1
  /\ \A r \in tracking[trackingTable] : r.id \notin ackedOk

\* ---- C30
OpenFailed == inc' = inc + 1 /\ ret'.call = "Open" /\ ret'.err # ""

C31_LastWithinMax ==
  (/\ snapshot # Nil /\ ret.call = "Read" /\ ret.read = "record"
   /\ snapshot.position.SnapshotMaxValue # NULL) =>
     snapshot.position.SnapshotLastProcessedVal.val
       <= snapshot.position.SnapshotMaxValue.val

\* ---- C32
WrittenOk(i) == dst.trace[i].err = ""

\* C32: Destination.Write processes the records in order and stops at the first
\* record whose writer call fails: it returns the number of records written
\* before it and the error, and no later record is written; when no call fails
\* it returns the number of records and no error.
C32_StopsAtFirstError ==
  dst.records # <<>> =>
    /\ \A i \in 1..Len(dst.trace) :
         /\ dst.trace[i].record = dst.records[i]
         /\ i > 1 => dst.trace[i].before = dst.trace[i - 1].after
    /\ dst.tbl = dst.trace[Len(dst.trace)].after
    /\ IF \A i \in 1..Len(dst.trace) : WrittenOk(i)
       THEN dst.err = "" /\ dst.n = Len(dst.records) /\ Len(dst.trace) = Len(dst.records)
       ELSE /\ dst.err # ""
            /\ Len(dst.trace) = dst.n + 1
            /\ \A i \in 1..dst.n : WrittenOk(i)
            /\ dst.trace[dst.n + 1].err = dst.err

C32_Witness ==
  /\ Len(dst.records) = 2
  /\ dst.n = 1 /\ dst.err = "exec insert"
  /\ dst.records[1] = dst.records[2]
  /\ dst.records[1].Operation = "create"
  /\ dst.tbl = {dst.records[1].Payload.m}

\* ---- C33
JournalIds == {r.id : r \in tracking[trackingTable]}

\* C33: no acknowledged id is lost between Ack and the clearing task: every
\* tracking id passed to an Ack that returned nil is still in the pending-ack
\* buffer or its journal row was deleted by a committed delete; a drain never
\* clears an id it did not delete.
C33_NoAckedIdLost ==
  tableSrv # Nil =>
    \A id \in ackedOk : id \in Range(tableSrv.idsForRemoving) \/ id \notin JournalIds

C33_Witness ==
  /\ tableSrv # Nil /\ pc = "running"
  /\ taskPc = "wait" /\ taskKind = "tick"
  /\ Cardinality(ackedOk) = 2
  /\ Len(tableSrv.idsForRemoving) = 1
  /\ JournalIds = Range(tableSrv.idsForRemoving)

\* ---- C34
\* C34: the clearing task never sends on the error channel or the completion
\* channel after Stop has closed them and never uses the database handle after
\* Stop has closed it, in every interleaving, the one in which Stop takes its
\* timeout branch while the task is still draining included.
C34_NoUseAfterClose ==
  /\ taskPc # "panic"
  /\ ~(taskPc = "delete" /\ dbClosed)

\* ---- C35
\* a tick's delete failed, a later Ack returned the error, and the Ack after
\* that has just appended id to the buffer
AckedAfterFailedTick(id) ==
  /\ taskPc = "exited" /\ taskKind = "tick"
  /\ tableSrv # Nil /\ tableSrv.errCh.len = 0
  /\ ret.call = "Ack" /\ ret.err = "" /\ ret.child = "cdc"
  /\ tableSrv.idsForRemoving # <<>>
  /\ id = tableSrv.idsForRemoving[Len(tableSrv.idsForRemoving)]
  /\ id \in JournalIds

\* C35: a failed tick does not end reclamation: a tracking id acknowledged
\* after a tick's delete failed is still eventually deleted from the journal,
\* by a later tick or by the final drain at Stop.
C35_ReclaimGoesOn ==
  \A id \in 1..MaxMutReclaim :
    AckedAfterFailedTick(id) ~> (trackingTable # "" /\ id \notin JournalIds)

\* an id was acknowledged after the failed tick
C35_Acked == \E id \in 1..MaxMutReclaim : AckedAfterFailedTick(id)

\* ---- C36
\* the rows the next HasNext/Next pairs of the CDC child look at: the rest of
\* the cursor, or the page loaded from the position once the cursor is drained
PendingRows(c) ==
  IF c.rows # <<>> THEN c.rows
  ELSE CdcPage(tracking[trackingTable], c.position, cfg.batchSize)

\* a Read step of the CDC child whose Next returned an error
NextFailed ==
  /\ ret'.call = "Read" /\ ret'.child = "cdc" /\ ret'.hasNext /\ ret'.err # ""

\* C36: a row for which Next returned an error is not silently skipped: the
\* iterator's position is unchanged by the failed Next, and the next
\* HasNext/Next pair looks at that same row again, never at a later row.
C36_FailedRowNotSkipped ==
  [][(cdc # Nil /\ cdc.rows # <<>> /\ NextFailed) =>
       /\ cdc'.position = cdc.position
       /\ PendingRows(cdc') # <<>>
       /\ Head(PendingRows(cdc')) = Head(cdc.rows)]_vars

\* Next has failed on a row of an unknown operation and a later row waits
C36_LaterRowNext ==
  /\ ret.call = "Read" /\ ret.child = "cdc" /\ ret.err = "ErrUnknownOperatorType"
  /\ cdc # Nil /\ cdc.position # Nil
  /\ PendingRows(cdc) # <<>>
  /\ Head(PendingRows(cdc)).id > cdc.position.CDCLastID

\* ---- C37
\* the tracking ids of the records Next has returned
EmittedIds ==
  {ParseSDKPosition(emitted[j].position).CDCLastID : j \in 1..Len(emitted)}

\* C37: the reclaim task only deletes journal rows that Next has already
\* returned: every tracking id in the pending-ack buffer, and so in the DELETE
\* the task issues from it, is at most the iterator's current last tracking
\* id and is the id of an emitted record.
C37_ReclaimsOnlyEmitted ==
  (tableSrv # Nil /\ cdc # Nil) =>
    \A id \in Range(tableSrv.idsForRemoving) :
      /\ cdc.position # Nil
      /\ id <= cdc.position.CDCLastID
      /\ id \in EmittedIds

\* the task's DELETE is running on an id while the iterator has gone further
C37_Witness ==
  /\ taskPc = "delete" /\ ~dbClosed
  /\ tableSrv # Nil /\ cdc # Nil /\ cdc.position # Nil
  /\ Len(tableSrv.idsForRemoving) = 1
  /\ tableSrv.idsForRemoving[1] < cdc.position.CDCLastID
  /\ Len(emitted) = 2

\* ---- C38
\* nothing is left to read: no transaction is open, the snapshot is over and
\* the cursor and the journal hold no row behind the position
Drained ==
  /\ pc = "running" /\ snapshot = Nil
  /\ \A w \in Writers : tx[w] = NoTx
  /\ cdc # Nil => PendingRows(cdc) = <<>>

\* the rows whose INSERT ran and committed during this iterator's life, after
\* the journal was set up, and that are still there
InsertedInLife ==
  {commits[k].oc : k \in {j \in 1..Len(commits) :
      /\ commits[j].op = insertOperation
      /\ commits[j].inc = inc
      /\ commits[j].at \in {"open", "run"}
      /\ trackingTable \in commits[j].captured
      /\ commits[j].oc \in table}}

EmittedAsNew(v) ==
  \E j \in 1..Len(emitted) : emitted[j].oc = v /\ emitted[j].op \in {"snapshot", "create"}

\* C38: no row falls between the snapshot and the CDC stream: once nothing is
\* left to read, every row inserted into the source table during the
\* iterator's life, and still there, has been emitted as a snapshot record or
\* as a CDC create record.
C38_NoRowBetween ==
  Drained => \A v \in InsertedInLife : EmittedAsNew(v)

\* the same where the handoff has installed the CDC child
C38_WithChild ==
  (Drained /\ cdc # Nil) => \A v \in InsertedInLife : EmittedAsNew(v)

\* ---- C39
\* what the host sees of a record
Seen(rec) == [op |-> rec.op, oc |-> rec.oc, id |-> rec.id, position |-> rec.position]

SnapshotPositionOf(v, maxValue) ==
  Position(TypeSnapshot, Int64(v), maxValue, 0, trackingTable)

RECURSIVE SnapshotRun(_, _, _, _)
\* the records of the snapshot child reading tbl page by page from position
SnapshotRun(tbl, position, batch, fuel) ==
  LET page == SnapshotPage(tbl, position, batch) IN
  IF page = <<>> \/ fuel = 0 THEN <<>>
  ELSE [k \in 1..Len(page) |->
          [op |-> "snapshot", oc |-> page[k], id |-> 0,
           position |-> ConvertToSDKPosition(SnapshotPositionOf(page[k], MaxValue(tbl)))]]
       \o SnapshotRun(tbl, SnapshotPositionOf(page[Len(page)], MaxValue(tbl)),
                      batch, fuel - 1)

CdcPositionOf(row) == Position(TypeCDC, NULL, NULL, row.id, trackingTable)

RECURSIVE CdcRun(_, _, _, _)
\* the records of the CDC child reading the journal page by page from position
CdcRun(rows, position, batch, fuel) ==
  LET page == CdcPage(rows, position, batch) IN
  IF page = <<>> \/ fuel = 0 THEN <<>>
  ELSE [k \in 1..Len(page) |-> Seen(cdcRecord(page[k], keys, CdcPositionOf(page[k])))]
       \o CdcRun(rows, CdcPositionOf(page[Len(page)]), batch, fuel - 1)

\* the records of one run over the table and the journal as they are
RecordsFor(batch) ==
  (IF cfg.snapshot
   THEN SnapshotRun(table, Nil, batch, Cardinality(table) + 1) ELSE <<>>)
  \o CdcRun(tracking[trackingTable], Nil, batch,
            Cardinality(tracking[trackingTable]) + 1)

SeenSoFar == [k \in 1..Len(emitted) |-> Seen(emitted[k])]

\* C39: for a fixed source table and a fixed journal the sequence of records
\* returned by Next is the same for every batchSize >= 1, for the snapshot
\* child and for the CDC child: the records returned so far are the first
\* records of the run with batchSize 1, and all of them once nothing is left.
C39_BatchSizeUnseen ==
  pc = "running" =>
    /\ IsPrefix(SeenSoFar, RecordsFor(1))
    /\ (Drained /\ cdc # Nil) => SeenSoFar = RecordsFor(1)

\* a run with batchSize 2 has returned snapshot and CDC records over several
\* pages and nothing is left
C39_Witness ==
  /\ pc = "running" /\ cfg.batchSize = MaxBatch /\ cfg.snapshot
  /\ Drained /\ cdc # Nil
  /\ Cardinality(table) = 2
  /\ Cardinality(tracking[trackingTable]) = 3
  /\ Len(emitted) = 5

====
